---------------------------- MODULE Spec2Model ----------------------------
(***************************************************************************)
(* Model of the token-budgeted map-reduce text-analysis engine of         *)
(* trend-pulse (backend/src/ai_analysis).                                  *)
(*                                                                         *)
(*   - MapReduceProcessor (utils/map_reduce.py): map_phase runs the map   *)
(*     function over the chunks in waves of batch_size concurrent calls   *)
(*     (asyncio.gather with return_exceptions=True), reduce_phase hands   *)
(*     the surviving results to the reduce function.                      *)
(*   - the three pipelines that drive it (sentiment_v2.py, clustering.py, *)
(*     summarizer.py) and their top-level calls.                          *)
(*   - SentimentAnalyzerV2._validate_result.                              *)
(*                                                                         *)
(* Python values are modelled as tagged records [t |-> tag, v |-> value]. *)
(* Code indices are 0-based; sequences here are 1-based, so chunk k of    *)
(* the model is chunks[k-1] of the code.  The loop variable i of map_phase *)
(* keeps the code's 0-based value.                                         *)
(***************************************************************************)
EXTENDS Integers, Sequences, FiniteSets, TLC

VARIABLES
    kind,           \* per processor: whose map/reduce functions it runs
    batch_size,     \* per processor: self.batch_size
    calls,          \* per processor: behaviour of the analysis call per chunk
    status,         \* per processor: state of each chunk's map call
    batch_results,  \* per processor: what gather has collected for the wave
    results,        \* per processor: map_phase's local list `results`
    i,              \* per processor: map_phase's loop variable
    pc,             \* per processor: where process()/process_posts() stands
    completion,     \* per processor: chunk indices in order of completion
    reduce_calls,   \* per processor: number of invocations of reduce_func
    reduce_arg,     \* per processor: the list handed to reduce_func
    ret,            \* per processor: the value returned to the caller
    raw,            \* the dict handed to _validate_result
    validated,      \* what _validate_result gave for it
    entry,          \* the top-level call made
    use_map_reduce, \* its use_map_reduce argument
    tokens,         \* the token count of its input
    posts,          \* its posts / texts
    top_n,          \* cluster_opinions' top_n
    text_chunks,    \* how many chunks split_text cuts the text into
    llm,            \* what the analysis call does, per call
    batch_reply,    \* what the batch chain's call does
    top_pc,         \* where the top-level call stands
    top_ret,        \* what the top-level call returned or raised
    path,           \* the strategy the top-level call chose
    sent,           \* the posts its direct analysis call was handed
    fn,             \* the helper function called on its own
    arg,            \* its arguments
    out,            \* what it returned
    analysis_logger,  \* logger.py's global _analysis_logger (0: None)
    loggers,        \* the AnalysisLogger objects created, by identity
    instance_logger,  \* per pipeline instance: its self.logger (0: not built)
    clock,          \* what time.time() gives
    acted,          \* the last call on a logger, and the instance making it
    started         \* per logger: the operations started and not yet ended

mrVars == <<kind, batch_size, calls, status, batch_results, results, i, pc,
            completion, reduce_calls, reduce_arg, ret>>

valVars == <<raw, validated>>

topVars == <<entry, use_map_reduce, tokens, posts, top_n, text_chunks, llm,
             batch_reply, top_pc, top_ret, path, sent>>

fnVars == <<fn, arg, out>>

logVars == <<analysis_logger, loggers, instance_logger, clock, acted, started>>

vars == <<mrVars, valVars, topVars, fnVars, logVars>>

\* What the processor's steps leave alone.
notMrVars == <<valVars, topVars, fnVars, logVars>>

Procs == {1, 2}

\* Two pipelines (or analyzers) built independently of each other.
Instances == {1, 2}

\* ------------------------------------------------------------------ bounds
MaxChunks == 3
MaxWidth == 2
MaxChunksTwo == 3
MaxPipeChunks == 2
MaxPosts == 2
MaxScores == 3
MaxClusters == 3
MaxSplitPosts == 5
MaxTextTokens == 6
MaxTokensPerChunk == 3
MaxSamplePosts == 76
MaxBatchTexts == 12
MaxApiCalls == 2
MaxClock == 3
MaxRetryCount == 3

\* ------------------------------------------------------------ Python values
None == [t |-> "None", v |-> 0]
Unset == [t |-> "unset", v |-> 0]
Val(x) == [t |-> "val", v |-> x]
ExceptionInstance == [t |-> "Exception", v |-> 0]
CancelledErrorInstance == [t |-> "CancelledError", v |-> 0]

\* isinstance(result, Exception): asyncio.CancelledError derives from
\* BaseException, not from Exception.
IsInstanceOfException(r) == r.t = "Exception"

Min(a, b) == IF a < b THEN a ELSE b
Max(a, b) == IF a > b THEN a ELSE b

\* All sequences over S of length lo..hi.
SeqsOf(S, lo, hi) == UNION {[1..n -> S] : n \in lo..hi}

\* ------------------------------------------------- _validate_result
\* A result dict is a function from the keys it holds.  A score is
\* [k |-> its Python type, n |-> its number]: n is the value of an int and
\* of a string holding an integer literal, and the value in tenths of a
\* float.  A confidence is in hundredths.  NoneLabel is a JSON null.
EmptyDict == [key \in {} |-> 0]
ScoreOf(k, n) == [k |-> k, n |-> n]
PyInt(n) == ScoreOf("int", n)
NoneLabel == "<None>"

ScoreVals ==
    {PyInt(n) : n \in {-20, 0, 39, 40, 59, 60, 100, 150}}
    \cup {ScoreOf("float", n) : n \in {-5, 599, 755, 1009}}
    \cup {ScoreOf("numstr", 80), ScoreOf("str", 0), ScoreOf("null", 0),
          ScoreOf("nan", 0), ScoreOf("inf", 0)}
LabelVals == {"positive", "negative", "neutral", "mixed", "Positive", NoneLabel}
ConfidenceVals == {85}
ReasoningVals == {"because"}

\* A dict with the key absent, or present with one of the values.
Entry(key, S) == {EmptyDict} \cup {(key :> x) : x \in S}

RawResults ==
    {a @@ b @@ c @@ d : a \in Entry("score", ScoreVals), b \in Entry("label", LabelVals),
                        c \in Entry("confidence", ConfidenceVals),
                        d \in Entry("reasoning", ReasoningVals)}

Raised(e) == [t |-> e, v |-> EmptyDict]

\* float -> int truncates toward zero.
TruncTenths(n) == IF n >= 0 THEN n \div 10 ELSE -((-n) \div 10)

\* Python's int(x).
IntOf(x) ==
    CASE x.k = "int" -> Val(x.n)
      [] x.k = "float" -> Val(TruncTenths(x.n))
      [] x.k = "numstr" -> Val(x.n)
      [] x.k = "str" -> Raised("ValueError")
      [] x.k = "nan" -> Raised("ValueError")
      [] x.k = "inf" -> Raised("OverflowError")
      [] x.k = "null" -> Raised("TypeError")

\* max(0, min(100, n))
Clamp(n) == Max(0, Min(100, n))

valid_labels == {"positive", "negative", "neutral"}

\* Mutant of InferLabel: the 70/40 mapping of the older analyzer.
InferLabel70(score) ==
    IF score >= 70 THEN "positive" ELSE IF score >= 40 THEN "neutral" ELSE "negative"

\* "Infer label from score"
InferLabel(score) ==
    IF score >= 60 THEN "positive" ELSE IF score >= 40 THEN "neutral" ELSE "negative"

RequiredDefaults ==
    [score |-> PyInt(50), label |-> "neutral", confidence |-> 50]

\* The dict with the key set to x unless it holds the key.
SetDefault(d, key, x) == IF key \in DOMAIN d THEN d ELSE d @@ (key :> x)

ValidateResult(result) ==
    LET r1 == SetDefault(result, "score", RequiredDefaults.score)
        r2 == SetDefault(r1, "label", RequiredDefaults.label)
        r3 == SetDefault(r2, "confidence", RequiredDefaults.confidence)
        r4 == SetDefault(r3, "reasoning", "Sentiment analysis completed")
        conv == IntOf(r4["score"])
    IN  IF conv.t # "val"
        THEN conv
        ELSE LET score == Clamp(conv.v)
                 r5 == [r4 EXCEPT !["score"] = PyInt(score)]
             IN  IF r5["label"] \notin valid_labels
                 THEN Val([r5 EXCEPT !["label"] = InferLabel(score)])
                 ELSE Val(r5)

\* _validate_result is called on a raw dict.
CallValidateResult ==
    /\ validated.t = "unset"
    /\ validated' = ValidateResult(raw)
    /\ UNCHANGED <<raw, mrVars, topVars, fnVars, logVars>>

ValIdle == raw = EmptyDict /\ validated = Unset

\* No helper function is called on its own.
FnIdle == fn = "none" /\ arg = <<>> /\ out = Unset

\* logger.py is imported: no AnalysisLogger is created, no instance built.
NoAct == [by |-> 0, op |-> "none", name |-> "none"]
LogIdle ==
    /\ analysis_logger = 0
    /\ loggers = <<>>
    /\ instance_logger = [a \in Instances |-> 0]
    /\ clock = 1
    /\ acted = NoAct
    /\ started = {}

\* No top-level call is made.
TopIdle ==
    /\ entry = "none"
    /\ use_map_reduce = FALSE
    /\ tokens = 0
    /\ posts = <<>>
    /\ top_n = 3
    /\ text_chunks = 0
    /\ llm = <<>>
    /\ batch_reply = [o |-> "none", r |-> <<>>]
    /\ top_pc = "none"
    /\ top_ret = Unset
    /\ path = "none"
    /\ sent = <<>>

\* ------------------------------------------------------- the pipelines
\* What one external analysis call does: it raises (an error, a timeout),
\* answers text the parser rejects, or answers r.
Reply(o, r) == [o |-> o, r |-> r]

RECURSIVE SumSeq(_)
SumSeq(nums) == IF nums = <<>> THEN 0 ELSE Head(nums) + SumSeq(Tail(nums))

RECURSIVE Flatten(_)
Flatten(lists) ==
    IF lists = <<>> THEN <<>> ELSE Head(lists) \o Flatten(Tail(lists))

\* seq[:n]
Take(seq, n) == SubSeq(seq, 1, Min(n, Len(seq)))

\* ---- sentiment (sentiment_v2.py)
SentimentRaw ==
    {("score" :> PyInt(90)) @@ ("label" :> "positive") @@ ("confidence" :> 85),
     ("score" :> PyInt(20)) @@ ("label" :> "negative"),
     ("score" :> ScoreOf("str", 0)) @@ ("label" :> "positive")}

SentimentReplies ==
    {Reply("exc", EmptyDict), Reply("unparsable", EmptyDict)}
    \cup {Reply("ok", r) : r \in SentimentRaw}

\* _get_default_result(reasoning)
GetDefaultResult(reasoning) ==
    [score |-> PyInt(50), label |-> "neutral", confidence |-> 0, reasoning |-> reasoning]

\* The chain call followed by _validate_result, inside one try block:
\* "failed" when either raises.
ChainThenValidate(b) ==
    IF b.o # "ok" THEN Raised("Exception")
    ELSE ValidateResult(b.r)

\* analyze_sentiment, direct path: except Exception -> default result.
SentimentDirect(b) ==
    LET res == ChainThenValidate(b)
    IN  IF res.t = "val" THEN res ELSE Val(GetDefaultResult("Analysis failed"))

\* map_sentiment: except Exception -> a neutral record, returned as a result.
MapSentiment(b) ==
    LET res == ChainThenValidate(b)
    IN  IF res.t = "val" THEN res
        ELSE Val([score |-> PyInt(50), label |-> "neutral", confidence |-> 0])

\* round(a / b) to the nearest integer, ties to even.
RoundDiv(a, b) ==
    LET q == a \div b
        r == a % b
    IN  IF 2 * r < b THEN q
        ELSE IF 2 * r > b THEN q + 1
        ELSE IF q % 2 = 0 THEN q ELSE q + 1

ScoreNumber(r) == r["score"].n
\* r.get("confidence", 0.5)
ConfidenceNumber(r) == IF "confidence" \in DOMAIN r THEN r["confidence"] ELSE 50

\* reduce_sentiment
ReduceSentiment(rs) ==
    IF rs = <<>> THEN GetDefaultResult("No results")
    ELSE LET n == Len(rs)
             total == SumSeq([idx \in 1..Len(rs) |-> ScoreNumber(rs[idx])])
             label == IF total >= 60 * n THEN "positive"
                      ELSE IF total >= 40 * n THEN "neutral" ELSE "negative"
         IN  [score |-> PyInt(total \div n), label |-> label,
              confidence |-> RoundDiv(SumSeq([idx \in 1..Len(rs) |-> ConfidenceNumber(rs[idx])]), n),
              reasoning |-> "Aggregated from " \o ToString(n) \o " chunks"]

\* ---- clustering (clustering.py)
\* A label is a sequence of words, each [s |-> lower-case spelling,
\* up |-> whether it is written with capitals].
Word(s, up) == [s |-> s, up |-> up]
Cluster(label, summary, count, quotes) ==
    [label |-> label, summary |-> summary, mention_count |-> count,
     sample_quotes |-> quotes]

PriceConcerns ==
    Cluster(<<Word("price", TRUE), Word("concerns", TRUE)>>, "s1", 3, <<"q1", "q2">>)
PriceDiscussion ==
    Cluster(<<Word("price", FALSE), Word("discussion", FALSE)>>, "s2", 2, <<"q2", "q3">>)
BatteryLife == Cluster(<<Word("battery", TRUE)>>, "s3", 4, <<"q4">>)

ClusterLists == {<<PriceConcerns>>, <<PriceDiscussion, BatteryLife>>}

ClusterReplies ==
    {Reply("exc", <<>>), Reply("unparsable", <<>>)}
    \cup {Reply("ok", cl) : cl \in ClusterLists}

\* _cluster_direct: the parsed clusters; [] when the call raises or the
\* answer does not parse.
ClusterDirect(b) == IF b.o = "ok" THEN b.r ELSE <<>>

\* set(label.lower().split())
LabelWords(label) == {label[n].s : n \in 1..Len(label)}

\* Mutant of Similar: a cluster already in a group is taken again.
SimilarIgnoringUsed(clusters, a, used) ==
    {a} \cup {j \in 1..Len(clusters) :
                 /\ j > a
                 /\ LabelWords(clusters[a].label) \cap LabelWords(clusters[j].label) # {}}

\* The clusters grouped with cluster a: a and every later, unused cluster
\* whose label shares a word with the label of a.
Similar(clusters, a, used) ==
    {a} \cup {j \in 1..Len(clusters) :
                 /\ j > a
                 /\ j \notin used
                 /\ LabelWords(clusters[a].label) \cap LabelWords(clusters[j].label) # {}}

\* The sequence of the clusters with indices in S, in index order.
Pick(clusters, S) ==
    SelectSeq([n \in 1..Len(clusters) |-> [idx |-> n, c |-> clusters[n]]],
              LAMBDA e : e.idx \in S)

QuotesOf(e) == e.c.sample_quotes
CountOf(e) == e.c.mention_count

\* The first `limit` distinct quotes, in order.
RECURSIVE UniqueQuotes(_, _, _)
UniqueQuotes(quotes, acc, limit) ==
    IF quotes = <<>> \/ Len(acc) >= limit THEN acc
    ELSE IF \E n \in 1..Len(acc) : acc[n] = Head(quotes)
         THEN UniqueQuotes(Tail(quotes), acc, limit)
         ELSE UniqueQuotes(Tail(quotes), Append(acc, Head(quotes)), limit)

RECURSIVE ConcatQuotes(_)
ConcatQuotes(members) ==
    IF members = <<>> THEN <<>>
    ELSE QuotesOf(Head(members)) \o ConcatQuotes(Tail(members))

\* Mutant of MergedCluster: the group's mention_count is the first member's.
MergedClusterFirstCount(clusters, a, group) ==
    LET members == Pick(clusters, group)
    IN  IF Cardinality(group) = 1 THEN clusters[a]
        ELSE Cluster(clusters[a].label,
                     "Combined insights from " \o ToString(Len(members))
                        \o " related discussions",
                     clusters[a].mention_count,
                     UniqueQuotes(ConcatQuotes(members), <<>>, 3))

MergedCluster(clusters, a, group) ==
    LET members == Pick(clusters, group)
    IN  IF Cardinality(group) = 1 THEN clusters[a]
        ELSE Cluster(clusters[a].label,
                     "Combined insights from " \o ToString(Len(members))
                        \o " related discussions",
                     SumSeq([idx \in 1..Len(members) |-> CountOf(members[idx])]),
                     UniqueQuotes(ConcatQuotes(members), <<>>, 3))

RECURSIVE GroupFrom(_, _, _)
GroupFrom(clusters, a, used) ==
    IF a > Len(clusters) THEN <<>>
    ELSE IF a \in used THEN GroupFrom(clusters, a + 1, used)
    ELSE LET group == Similar(clusters, a, used)
         IN  <<MergedCluster(clusters, a, group)>>
                \o GroupFrom(clusters, a + 1, used \cup group)

\* Mutant of SortByCount: the list is left in the order of the groups.
SortByCountUnsorted(seq) == seq

\* list.sort(key=mention_count, reverse=True): stable, descending.
RECURSIVE InsertByCount(_, _)
InsertByCount(sorted, c) ==
    IF sorted = <<>> THEN <<c>>
    ELSE IF Head(sorted).mention_count >= c.mention_count
         THEN <<Head(sorted)>> \o InsertByCount(Tail(sorted), c)
         ELSE <<c>> \o sorted

RECURSIVE SortByCount(_)
SortByCount(seq) ==
    IF seq = <<>> THEN <<>>
    ELSE InsertByCount(SortByCount(SubSeq(seq, 1, Len(seq) - 1)), seq[Len(seq)])

\* Mutant of MergeSimilarClusters: no early return for a short list.
MergeSimilarClustersAlways(clusters, max_clusters) ==
    Take(SortByCount(GroupFrom(clusters, 1, {})), max_clusters)

\* _merge_similar_clusters
MergeSimilarClusters(clusters, max_clusters) ==
    IF Len(clusters) <= max_clusters THEN clusters
    ELSE Take(SortByCount(GroupFrom(clusters, 1, {})), max_clusters)

\* reduce_clusters
ReduceClusters(batch_clusters, n) ==
    LET all_clusters == Flatten(batch_clusters)
    IN  IF all_clusters = <<>> THEN <<>>
        ELSE MergeSimilarClusters(all_clusters, n)

\* ---- summary (summarizer.py)
\* A text is a sequence of pieces; " " is white space.
RECURSIVE LStrip(_)
LStrip(text) ==
    IF text # <<>> /\ Head(text) = " " THEN LStrip(Tail(text)) ELSE text

RECURSIVE RStrip(_)
RStrip(text) ==
    IF text # <<>> /\ text[Len(text)] = " "
    THEN RStrip(SubSeq(text, 1, Len(text) - 1)) ELSE text

\* str.strip()
Strip(text) == RStrip(LStrip(text))

\* "\n\n".join(texts)
RECURSIVE Join(_)
Join(texts) ==
    IF texts = <<>> THEN <<>>
    ELSE IF Len(texts) = 1 THEN Head(texts)
    ELSE Head(texts) \o <<"\n\n">> \o Join(Tail(texts))

SummaryTexts == {<<" ", "Partial summary", " ">>, <<"Other partial summary">>}

SummaryReplies == {Reply("exc", <<>>)} \cup {Reply("ok", text) : text \in SummaryTexts}

NoSummaryGenerated == <<"No summary generated.">>
NoSubstantialDiscussion == <<"No substantial discussion found.">>
NoPostsToSummarize == <<"No posts to summarize.">>
SummaryGenerationFailed == <<"Summary generation failed.">>
ChunkPlaceholder == <<"Summary of ", "len(chunk)", " characters of discussion.">>

\* _summarize_direct
SummarizeDirect(b) == IF b.o = "ok" THEN Strip(b.r) ELSE SummaryGenerationFailed

\* map_chunk: except Exception -> a placeholder sentence, returned as a result.
MapChunk(b) == IF b.o = "ok" THEN Strip(b.r) ELSE ChunkPlaceholder

\* reduce_summaries; o is what the reduce chain's call does.
ReduceSummaries(summaries, o) ==
    IF summaries = <<>> THEN NoSummaryGenerated
    ELSE IF o.o = "ok" THEN Strip(o.r)
    ELSE Join(summaries)

\* ------------------------------------------------------ the map functions
\* Behaviours of an injected (generic) asynchronous map function on a chunk.
GenericBehaviours == {"ok", "none", "exc", "cancel"}

\* What awaiting map_func(chunk) gives, as gather(return_exceptions=True)
\* collects it: a returned value, or the exception instance.
GenericMap(b, k) ==
    CASE b = "ok" -> Val(k)
      [] b = "none" -> None
      [] b = "exc" -> ExceptionInstance
      [] b = "cancel" -> CancelledErrorInstance

\* The map function of each kind of operation applied to chunk k, where the
\* analysis call does b.
MapFunc(kd, b, k) ==
    CASE kd = "generic" -> GenericMap(b, k)
      [] kd = "sentiment" -> MapSentiment(b)
      [] kd = "cluster" -> Val(ClusterDirect(b))
      [] kd = "summary" -> Val(MapChunk(b))
      [] kd = "count" -> Val(Len(b))

\* What the reduce function's own analysis call may do (summary only).
ReduceBehaviours(kd) == IF kd = "summary" THEN SummaryReplies ELSE {Reply("none", <<>>)}

\* The payloads of the results handed to the reduce function.
Payloads(lst) == [n \in 1..Len(lst) |-> lst[n].v]

\* The reduce function applied to the list it is handed.
ReduceFunc(kd, lst, o) ==
    CASE kd = "generic" -> [t |-> "reduced", v |-> lst]
      [] kd = "sentiment" -> Val(ReduceSentiment(Payloads(lst)))
      [] kd = "cluster" -> Val(ReduceClusters(Payloads(lst), top_n))
      [] kd = "summary" -> Val(ReduceSummaries(Payloads(lst), o))
      [] kd = "count" -> Val(SumSeq(Payloads(lst)))

\* --------------------------------------------------- MapReduceProcessor
NChunks(p) == Len(calls[p])

\* batch = chunks[i:i + self.batch_size]
Wave(p, off) == {k \in 1..NChunks(p) : off < k /\ k <= off + batch_size[p]}

InFlight(p) == {k \in 1..NChunks(p) : status[p][k] = "running"}

\* Mutant of FilterNone: the final filter is forgotten.
FilterNoneKeepsAll(rs) == rs

\* [r for r in results if r is not None]
FilterNone(rs) == SelectSeq(rs, LAMBDA r : r.t # "None")

\* Mutant of Placeholder: an exception instance is appended like a result.
PlaceholderKeepsException(r) == r

\* The loop body after gather: exceptions become None placeholders.
Placeholder(r) == IF IsInstanceOfException(r) THEN None ELSE r

\* Mutant of AppendWave: the wave's results are taken in completion order
\* (as asyncio.as_completed would give them).
AppendWaveByCompletion(p, off) ==
    LET n == Cardinality(Wave(p, off))
        done == completion[p]
    IN  results[p] \o
          [j \in 1..n |-> Placeholder(batch_results[p][done[Len(done) - n + j]])]

\* for j, result in enumerate(batch_results): results.append(...)
AppendWave(p, off) ==
    LET n == Cardinality(Wave(p, off))
    IN  results[p] \o [j \in 1..n |-> Placeholder(batch_results[p][off + j])]

\* Mutant of WaveDone: the wait ends with the first call that completes.
WaveDoneOnFirst(p) == \E k \in Wave(p, i[p]) : status[p][k] = "done"

\* gather returns only when every awaitable of the wave is done.
WaveDone(p) == \A k \in Wave(p, i[p]) : status[p][k] = "done"

StartWaveStatus(p, off) ==
    [k \in 1..NChunks(p) |-> IF k \in Wave(p, off) THEN "running" ELSE status[p][k]]

\* process()/process_posts(): split, enter map_phase, start the first wave;
\* with no chunk the loop body never runs and reduce_func is called at once.
Process(p) ==
    /\ pc[p] = "idle"
    /\ IF NChunks(p) = 0
       THEN /\ pc' = [pc EXCEPT ![p] = "reduce"]
            /\ reduce_calls' = [reduce_calls EXCEPT ![p] = @ + 1]
            /\ reduce_arg' = [reduce_arg EXCEPT ![p] = FilterNone(results[p])]
            /\ UNCHANGED status
       ELSE /\ pc' = [pc EXCEPT ![p] = "gather"]
            /\ status' = [status EXCEPT ![p] = StartWaveStatus(p, 0)]
            /\ UNCHANGED <<reduce_calls, reduce_arg>>
    /\ UNCHANGED <<kind, batch_size, calls, batch_results, results, i,
                   completion, ret>>
    /\ UNCHANGED notMrVars

\* One map call of the wave in flight completes (in any order).
Complete(p, k) ==
    /\ pc[p] = "gather"
    /\ status[p][k] = "running"
    /\ status' = [status EXCEPT ![p][k] = "done"]
    /\ batch_results' = [batch_results EXCEPT ![p][k] = MapFunc(kind[p], calls[p][k], k)]
    /\ completion' = [completion EXCEPT ![p] = Append(@, k)]
    /\ UNCHANGED <<kind, batch_size, calls, results, i, pc, reduce_calls,
                   reduce_arg, ret>>
    /\ UNCHANGED notMrVars

\* gather returns: the wave's results are appended in chunk order; then
\* either the next wave starts or map_phase returns and reduce_phase calls
\* reduce_func (no await lies between the two).
EndWave(p) ==
    /\ pc[p] = "gather"
    /\ WaveDone(p)
    /\ LET off == i[p] + batch_size[p]
           rs == AppendWave(p, i[p])
       IN  /\ results' = [results EXCEPT ![p] = rs]
           /\ i' = [i EXCEPT ![p] = off]
           /\ IF off < NChunks(p)
              THEN /\ status' = [status EXCEPT ![p] = StartWaveStatus(p, off)]
                   /\ UNCHANGED <<pc, reduce_calls, reduce_arg>>
              ELSE /\ pc' = [pc EXCEPT ![p] = "reduce"]
                   /\ reduce_calls' = [reduce_calls EXCEPT ![p] = @ + 1]
                   /\ reduce_arg' = [reduce_arg EXCEPT ![p] = FilterNone(rs)]
                   /\ UNCHANGED status
    /\ UNCHANGED <<kind, batch_size, calls, batch_results, completion, ret>>
    /\ UNCHANGED notMrVars

\* reduce_func returns; process() returns its value.
ReduceReturn(p) ==
    /\ pc[p] = "reduce"
    /\ pc' = [pc EXCEPT ![p] = "returned"]
    /\ \E o \in ReduceBehaviours(kind[p]) :
          ret' = [ret EXCEPT ![p] = ReduceFunc(kind[p], reduce_arg[p], o)]
    /\ UNCHANGED <<kind, batch_size, calls, status, batch_results, results, i,
                   completion, reduce_calls, reduce_arg>>
    /\ UNCHANGED notMrVars

\* The task running process() is cancelled while it awaits gather or
\* reduce_func: gather cancels the awaitables still pending and
\* CancelledError propagates out of map_phase and process().
Cancel(p) ==
    /\ pc[p] \in {"gather", "reduce"}
    /\ pc' = [pc EXCEPT ![p] = "cancelled"]
    /\ status' = [status EXCEPT ![p] =
                    [k \in 1..NChunks(p) |->
                        IF status[p][k] = "running" THEN "cancelled" ELSE status[p][k]]]
    /\ UNCHANGED <<kind, batch_size, calls, batch_results, results, i,
                   completion, reduce_calls, reduce_arg, ret>>
    /\ UNCHANGED notMrVars

\* A processor as constructed, before process() is called.
Fresh(kd, w, cs, start) ==
    [kind |-> kd, batch_size |-> w, calls |-> cs,
     status |-> [k \in 1..Len(cs) |-> "pending"],
     batch_results |-> [k \in 1..Len(cs) |-> Unset],
     pc |-> start]

InitFrom(f) ==
    /\ kind = [p \in Procs |-> f[p].kind]
    /\ batch_size = [p \in Procs |-> f[p].batch_size]
    /\ calls = [p \in Procs |-> f[p].calls]
    /\ status = [p \in Procs |-> f[p].status]
    /\ batch_results = [p \in Procs |-> f[p].batch_results]
    /\ pc = [p \in Procs |-> f[p].pc]
    /\ results = [p \in Procs |-> <<>>]
    /\ i = [p \in Procs |-> 0]
    /\ completion = [p \in Procs |-> <<>>]
    /\ reduce_calls = [p \in Procs |-> 0]
    /\ reduce_arg = [p \in Procs |-> <<>>]
    /\ ret = [p \in Procs |-> Unset]

Absent == Fresh("none", 1, <<>>, "absent")

NoProcessor == InitFrom([p \in Procs |-> Absent])

\* One processor running one operation with an arbitrary map function.
Init ==
    \E w \in 1..MaxWidth, cs \in SeqsOf(GenericBehaviours, 0, MaxChunks) :
        /\ InitFrom([p \in Procs |-> IF p = 1 THEN Fresh("generic", w, cs, "idle")
                                            ELSE Absent])
        /\ ValIdle
        /\ TopIdle
        /\ FnIdle
        /\ LogIdle

Next ==
    \E p \in Procs :
        \/ Process(p)
        \/ \E k \in 1..NChunks(p) : Complete(p, k)
        \/ EndWave(p)
        \/ ReduceReturn(p)
        \/ Cancel(p)

Spec == Init /\ [][Next]_vars

\* Two independent processors, each running its own operation; the second
\* one has MaxChunksTwo chunks and a map function that always succeeds.
TwoBehaviours == {"ok", "exc"}

InitTwo ==
    \E w1 \in 1..MaxWidth, w2 \in 1..MaxWidth,
       c1 \in SeqsOf(TwoBehaviours, 1, MaxChunksTwo),
       c2 \in SeqsOf({"ok"}, MaxChunksTwo, MaxChunksTwo) :
        /\ InitFrom([p \in Procs |-> IF p = 1 THEN Fresh("generic", w1, c1, "idle")
                                            ELSE Fresh("generic", w2, c2, "idle")])
        /\ ValIdle
        /\ TopIdle
        /\ FnIdle
        /\ LogIdle

SpecTwo == InitTwo /\ [][Next]_vars

\* _validate_result on every raw dict.
InitVal ==
    /\ NoProcessor
    /\ TopIdle
    /\ FnIdle
    /\ LogIdle
    /\ raw \in RawResults
    /\ validated = Unset

NextVal == CallValidateResult

SpecVal == InitVal /\ [][NextVal]_vars

\* ---------------------------------------------------- the top-level calls
\* A post is a dict with a content of len characters (holding no redundant
\* white space), spam when it holds a spam keyword.
Post(len, spam) == [t |-> "dict", len |-> len, spam |-> spam]
\* A Python list, where the code may meet one in place of a dict.
TList(items) == [t |-> "list", items |-> items]

ContentLen(p) == p.len

\* TextPreprocessor.clean_for_analysis: text[:max_length] + "..."
CleanLen(n, max_length) == IF n > max_length THEN max_length + 3 ELSE n

\* TokenCounter.estimate_tokens_from_chars: int(char_count * 0.25)
EstimateTokensFromChars(char_count) == char_count \div 4

\* Mutant of SplitPosts: the last, shorter batch is left out.
SplitPostsWholeBatches(ps, max_tokens_per_chunk) ==
    LET total_chars == SumSeq([idx \in 1..Len(ps) |-> ContentLen(ps[idx])])
        estimated_tokens == EstimateTokensFromChars(total_chars)
        chunks_needed == Max(1, estimated_tokens \div max_tokens_per_chunk)
        size == Max(1, Len(ps) \div chunks_needed)
        nbatches == Len(ps) \div size
    IN  [b \in 1..nbatches |-> SubSeq(ps, (b - 1) * size + 1, b * size)]

\* MapReduceProcessor.split_posts
SplitPosts(ps, max_tokens_per_chunk) ==
    LET total_chars == SumSeq([idx \in 1..Len(ps) |-> ContentLen(ps[idx])])
        estimated_tokens == EstimateTokensFromChars(total_chars)
        chunks_needed == Max(1, estimated_tokens \div max_tokens_per_chunk)
        size == Max(1, Len(ps) \div chunks_needed)
        nbatches == (Len(ps) + size - 1) \div size
    IN  [b \in 1..nbatches |-> SubSeq(ps, (b - 1) * size + 1, Min(b * size, Len(ps)))]

\* OpinionClusterer._filter_posts
ClusterFilterPosts(ps) ==
    LET kept == SelectSeq(ps, LAMBDA q : q.len >= 50 /\ ~q.spam)
    IN  [n \in 1..Len(kept) |-> [kept[n] EXCEPT !.len = CleanLen(@, 500)]]

\* Summarizer._filter_posts: filtered[::step][:max_posts]
SummaryFilterPosts(ps) ==
    LET kept == SelectSeq(ps, LAMBDA q : q.len >= 50)
        cleaned == [n \in 1..Len(kept) |-> [kept[n] EXCEPT !.len = CleanLen(@, 600)]]
        step == Len(cleaned) \div 30
    IN  IF Len(cleaned) > 30
        THEN [n \in 1..Min(30, (Len(cleaned) + step - 1) \div step) |->
                 cleaned[(n - 1) * step + 1]]
        ELSE cleaned

EstimatedTokens(ps) == EstimateTokensFromChars(SumSeq([idx \in 1..Len(ps) |-> ContentLen(ps[idx])]))

\* TokenCounter.split_text_by_tokens on a text of n tokens: the number of
\* chunks, one for each start 0, max - overlap, 2 * (max - overlap), ... < n.
SplitTextByTokens(n, max_tokens_per_chunk, overlap) ==
    LET stride == max_tokens_per_chunk - overlap
    IN  (n + stride - 1) \div stride

\* len("\n\n".join(f"Post: {p['content']}" for p in posts))
PostLineLen(p) == 6 + p.len
CombinedTextChars(ps) == SumSeq([idx \in 1..Len(ps) |-> PostLineLen(ps[idx])]) + 2 * (Len(ps) - 1)
\* The chunks split_text gives for the combined text of the filtered posts,
\* a text of CombinedTextChars // 4 tokens.
SummaryChunks(ps) ==
    LET filtered_posts == SummaryFilterPosts(ps)
    IN  IF filtered_posts = <<>> THEN 0
        ELSE SplitTextByTokens(EstimateTokensFromChars(CombinedTextChars(filtered_posts)),
                               1500, 100)

\* What the j-th analysis call of the top-level call does: llm lists what
\* the first few calls do, and later calls repeat it in turn.
CallAt(j) == llm[((j - 1) % Len(llm)) + 1]
CallsFor(n) == [k \in 1..n |-> CallAt(k)]

\* _analyze_individually: analyze_sentiment(text) for each text; its
\* use_map_reduce is False, so each takes the direct path.
AnalyzeIndividually(texts) == [j \in 1..Len(texts) |-> SentimentDirect(CallAt(j)).v]

\* _analyze_batch_direct, the batch chain's call doing b.
AnalyzeBatchDirect(texts, b) ==
    IF b.o = "ok" /\ \A n \in 1..Len(b.r) : ValidateResult(b.r[n]).t = "val"
    THEN Val([n \in 1..Len(b.r) |-> ValidateResult(b.r[n]).v])
    ELSE Val(AnalyzeIndividually(texts))

\* map_batch of _analyze_batch_map_reduce: p["content"] for p in posts
\* raises TypeError for a p that is a list.
MapBatch(given, b) ==
    IF \E n \in 1..Len(given) : given[n].t # "dict"
    THEN Raised("TypeError")
    ELSE AnalyzeBatchDirect(given, b)

\* _analyze_batch_map_reduce: processor.reduce_phase(batches, map_batch, ...)
\* awaits map_batch(batches), its "reduce function", on the list of batches;
\* the loop after it extends a list by each element of the result.
AnalyzeBatchMapReduce(texts, b) ==
    LET batches == SplitPosts(texts, 2000)
        final_results == MapBatch([n \in 1..Len(batches) |-> TList(batches[n])], b)
    IN  IF final_results.t # "val" THEN final_results
        ELSE Val(Flatten(final_results.v))

\* What the call does before its first await on a processor: it returns,
\* raises, or ("mr") builds a MapReduceProcessor of the given kind and
\* width and runs process()/process_posts() over n chunks.
StartMapReduce(kd, w, n) == [t |-> "mr", v |-> [kind |-> kd, batch_size |-> w, n |-> n]]

\* The strategy each top-level call chooses: "map_reduce", "direct", or
\* "none" when it returns before choosing.
AnalyzeSentimentPath ==
    IF tokens > 3000 /\ use_map_reduce THEN "map_reduce" ELSE "direct"

AnalyzeBatchPath ==
    IF posts = <<>> THEN "none"
    ELSE IF tokens > 4000 \/ use_map_reduce THEN "map_reduce" ELSE "direct"

ClusterOpinionsPath ==
    LET filtered_posts == ClusterFilterPosts(posts)
    IN  IF posts = <<>> \/ filtered_posts = <<>> THEN "none"
        ELSE IF EstimatedTokens(filtered_posts) > 4000 \/ use_map_reduce
             THEN "map_reduce" ELSE "direct"

SummarizeDiscussionPath ==
    LET filtered_posts == SummaryFilterPosts(posts)
    IN  IF posts = <<>> \/ filtered_posts = <<>> THEN "none"
        ELSE IF EstimatedTokens(filtered_posts) > 3000 \/ use_map_reduce
             THEN "map_reduce" ELSE "direct"

TopPath ==
    CASE entry = "analyze_sentiment" -> AnalyzeSentimentPath
      [] entry = "analyze_batch" -> AnalyzeBatchPath
      [] entry = "cluster_opinions" -> ClusterOpinionsPath
      [] entry = "summarize_discussion" -> SummarizeDiscussionPath

AnalyzeSentimentCall ==
    IF AnalyzeSentimentPath = "map_reduce"
    THEN StartMapReduce("sentiment", 5, text_chunks)
    ELSE SentimentDirect(CallAt(1))

AnalyzeBatchCall ==
    LET cleaned_texts == [n \in 1..Len(posts) |-> [posts[n] EXCEPT !.len = CleanLen(@, 1000)]]
    IN  CASE AnalyzeBatchPath = "none" -> Val(<<>>)
          [] AnalyzeBatchPath = "map_reduce" ->
                 AnalyzeBatchMapReduce(cleaned_texts, batch_reply)
          [] AnalyzeBatchPath = "direct" -> AnalyzeBatchDirect(cleaned_texts, batch_reply)

ClusterOpinionsCall ==
    LET filtered_posts == ClusterFilterPosts(posts)
    IN  CASE ClusterOpinionsPath = "none" -> Val(<<>>)
          [] ClusterOpinionsPath = "map_reduce" ->
                 StartMapReduce("cluster", 3, Len(SplitPosts(filtered_posts, 2000)))
          [] ClusterOpinionsPath = "direct" -> Val(ClusterDirect(CallAt(1)))

SummarizeDiscussionCall ==
    LET filtered_posts == SummaryFilterPosts(posts)
    IN  CASE SummarizeDiscussionPath = "none" ->
                 IF posts = <<>> THEN Val(NoPostsToSummarize)
                 ELSE Val(NoSubstantialDiscussion)
          [] SummarizeDiscussionPath = "map_reduce" ->
                 StartMapReduce("summary", 5, text_chunks)
          [] SummarizeDiscussionPath = "direct" -> Val(SummarizeDirect(CallAt(1)))

\* The positions in ps of the posts OpinionClusterer._filter_posts keeps.
ClusterKept(ps) ==
    SelectSeq([n \in 1..Len(ps) |-> n], LAMBDA n : ps[n].len >= 50 /\ ~ps[n].spam)

\* _cluster_direct: sampled_posts = posts[:min(50, len(posts))], as positions
\* in the list cluster_opinions was given.
ClusterDirectSent(ps) ==
    LET filtered_posts == ClusterKept(ps)
        sample_size == Min(50, Len(filtered_posts))
    IN  Take(filtered_posts, sample_size)

\* The positions in ps of the posts Summarizer._filter_posts keeps before
\* it samples.
SummaryKept(ps) ==
    SelectSeq([n \in 1..Len(ps) |-> n], LAMBDA n : ps[n].len >= 50)

\* seq[::step]
EveryNth(seq, step) ==
    [k \in 1..((Len(seq) + step - 1) \div step) |-> seq[(k - 1) * step + 1]]

\* Mutant of SummarySampled: the first max_posts posts are kept.
SummarySampledPrefix(ps) ==
    LET filtered == SummaryKept(ps)
        max_posts == 30
    IN  IF Len(filtered) > max_posts
        THEN Take(filtered, max_posts)
        ELSE filtered

\* Summarizer._filter_posts, as positions in the list it was given:
\* filtered[::step][:max_posts] when more than max_posts posts are kept.
\* _summarize_direct puts every one of them in its prompt.
SummarySampled(ps) ==
    LET filtered == SummaryKept(ps)
        max_posts == 30
        step == Len(filtered) \div max_posts
    IN  IF Len(filtered) > max_posts
        THEN Take(EveryNth(filtered, step), max_posts)
        ELSE filtered

\* The posts (positions in posts) in the prompt of the one call of the
\* direct path; none when the call takes another path.
TopSent ==
    CASE TopPath # "direct" -> <<>>
      [] TopPath = "direct" /\ entry = "analyze_sentiment" -> <<>>
      [] TopPath = "direct" /\ entry = "analyze_batch" -> [n \in 1..Len(posts) |-> n]
      [] TopPath = "direct" /\ entry = "cluster_opinions" -> ClusterDirectSent(posts)
      [] TopPath = "direct" /\ entry = "summarize_discussion" -> SummarySampled(posts)

TopOutcome ==
    CASE entry = "analyze_sentiment" -> AnalyzeSentimentCall
      [] entry = "analyze_batch" -> AnalyzeBatchCall
      [] entry = "cluster_opinions" -> ClusterOpinionsCall
      [] entry = "summarize_discussion" -> SummarizeDiscussionCall

\* The top-level call runs up to its return or to process()/process_posts().
TopCall ==
    /\ top_pc = "called"
    /\ path' = TopPath
    /\ sent' = TopSent
    /\ LET outcome == TopOutcome
       IN  IF outcome.t = "mr"
           THEN LET f == Fresh(outcome.v.kind, outcome.v.batch_size, CallsFor(outcome.v.n), "idle")
                IN  /\ kind' = [kind EXCEPT ![1] = f.kind]
                    /\ batch_size' = [batch_size EXCEPT ![1] = f.batch_size]
                    /\ calls' = [calls EXCEPT ![1] = f.calls]
                    /\ status' = [status EXCEPT ![1] = f.status]
                    /\ batch_results' = [batch_results EXCEPT ![1] = f.batch_results]
                    /\ pc' = [pc EXCEPT ![1] = f.pc]
                    /\ top_pc' = "mr"
                    /\ UNCHANGED top_ret
           ELSE /\ top_ret' = outcome
                /\ top_pc' = "done"
                /\ UNCHANGED <<kind, batch_size, calls, status, batch_results, pc>>
    /\ UNCHANGED <<results, i, completion, reduce_calls, reduce_arg, ret, valVars, fnVars, logVars,
                   entry, use_map_reduce, tokens, posts, top_n, text_chunks, llm,
                   batch_reply>>

\* process()/process_posts() returned: the top-level call returns
\* (cluster_opinions: results[:top_n]).
TopReturn ==
    /\ top_pc = "mr"
    /\ pc[1] = "returned"
    /\ top_pc' = "done"
    /\ top_ret' = IF entry = "cluster_opinions" THEN Val(Take(ret[1].v, top_n))
                  ELSE ret[1]
    /\ UNCHANGED <<mrVars, valVars, fnVars, logVars, entry, use_map_reduce, tokens, posts, top_n,
                   text_chunks, llm, batch_reply, path, sent>>

\* The inputs of the top-level calls.
PostShapes == {Post(20, FALSE), Post(100, FALSE), Post(700, FALSE), Post(100, TRUE)}
ManyPosts == {40}
PostLists ==
    SeqsOf(PostShapes, 0, MaxPosts)
    \cup {[n \in 1..m |-> Post(700, FALSE)] : m \in ManyPosts}
TextLists ==
    SeqsOf({Post(100, FALSE)}, 0, MaxPosts)
    \cup {[n \in 1..m |-> Post(700, FALSE)] : m \in ManyPosts}
TokenCounts == {100, 3500, 4500}
BatchReplies ==
    {Reply("exc", <<>>), Reply("unparsable", <<>>)}
    \cup {Reply("ok", rs) : rs \in SeqsOf(SentimentRaw, 1, 2)}
NoReply == Reply("none", <<>>)

TopInputs(e, use, tk, ps, n, tc, l, b) ==
    /\ entry = e
    /\ use_map_reduce = use
    /\ tokens = tk
    /\ posts = ps
    /\ top_n = n
    /\ text_chunks = tc
    /\ llm = l
    /\ batch_reply = b
    /\ top_pc = "called"
    /\ top_ret = Unset
    /\ path = "none"
    /\ sent = <<>>

InitPipe ==
    /\ NoProcessor
    /\ ValIdle
    /\ FnIdle
    /\ LogIdle
    /\ \E use \in BOOLEAN :
          \/ \E tk \in TokenCounts,
                l \in SeqsOf(SentimentReplies, MaxPipeChunks, MaxPipeChunks) :
                TopInputs("analyze_sentiment", use, tk, <<>>, 3,
                          SplitTextByTokens(tk, 1500, 100), l, NoReply)
          \/ \E ps \in TextLists, b \in BatchReplies,
                l \in SeqsOf(SentimentReplies, MaxPipeChunks, MaxPipeChunks) :
                TopInputs("analyze_batch", use, EstimatedTokens(ps), ps, 3, 0, l, b)
          \/ \E ps \in PostLists, n \in {1, 3},
                l \in SeqsOf(ClusterReplies, MaxPipeChunks, MaxPipeChunks) :
                TopInputs("cluster_opinions", use, EstimatedTokens(ClusterFilterPosts(ps)),
                          ps, n, 0, l, NoReply)
          \/ \E ps \in PostLists,
                l \in SeqsOf(SummaryReplies, MaxPipeChunks, MaxPipeChunks) :
                TopInputs("summarize_discussion", use,
                          EstimatedTokens(SummaryFilterPosts(ps)), ps, 3,
                          SummaryChunks(ps), l, NoReply)

NextPipe ==
    \/ TopCall
    \/ Process(1)
    \/ \E k \in 1..NChunks(1) : Complete(1, k)
    \/ EndWave(1)
    \/ ReduceReturn(1)
    \/ TopReturn

SpecPipe == InitPipe /\ [][NextPipe]_vars

\* cluster_opinions and summarize_discussion on lists long enough for the
\* sampling of both to act: m posts, every one valid, or every fifth too
\* short and every seventh spam.
SamplePosts(m, mixed) ==
    [n \in 1..m |->
        IF mixed /\ n % 5 = 0 THEN Post(20, FALSE)
        ELSE IF mixed /\ n % 7 = 0 THEN Post(100, TRUE)
        ELSE Post(100, FALSE)]

SamplePostLists == {SamplePosts(m, mixed) : m \in 0..MaxSamplePosts, mixed \in BOOLEAN}

InitSample ==
    /\ NoProcessor
    /\ ValIdle
    /\ FnIdle
    /\ LogIdle
    /\ \E use \in BOOLEAN, ps \in SamplePostLists :
          \/ \E l \in SeqsOf(ClusterReplies, 1, 1) :
                TopInputs("cluster_opinions", use, EstimatedTokens(ClusterFilterPosts(ps)),
                          ps, 3, 0, l, NoReply)
          \/ \E l \in SeqsOf(SummaryReplies, 1, 1) :
                TopInputs("summarize_discussion", use,
                          EstimatedTokens(SummaryFilterPosts(ps)), ps, 3,
                          SummaryChunks(ps), l, NoReply)

SpecSample == InitSample /\ [][NextPipe]_vars

\* ------------------------------------ helper functions called on their own
\* The call of a helper function f on a, returning F(a).
FnInput(f, a) == fn = f /\ arg = a /\ out = Unset
FnOthersIdle == NoProcessor /\ ValIdle /\ TopIdle /\ LogIdle

\* ---- calculate_overall_sentiment (sentiment_v2.py, sentiment.py)
\* A Python float that is the quotient num / den.
Rat(num, den) == [num |-> num, den |-> den]
RatEq(a, b) == a.num * b.den = b.num * a.den

\* round(num / den, 1): to the nearest tenth, ties to even.
RoundOneDecimal(num, den) == Rat(RoundDiv(10 * num, den), 10)

\* SentimentAnalyzerV2.calculate_overall_sentiment
CalculateOverallSentimentV2(sentiment_scores) ==
    IF sentiment_scores = <<>> THEN Rat(50, 1)
    ELSE RoundOneDecimal(SumSeq(sentiment_scores), Len(sentiment_scores))

\* SentimentAnalyzer.calculate_overall_sentiment, the analyzer that
\* AnalysisPipeline constructs and calls.
CalculateOverallSentiment(sentiment_scores) ==
    IF sentiment_scores = <<>> THEN Rat(50, 1)
    ELSE Rat(SumSeq(sentiment_scores), Len(sentiment_scores))

Analyzers == {"SentimentAnalyzerV2", "SentimentAnalyzer"}
\* Scores as _validate_result leaves them: integers from 0 to 100.
Scores == {0, 50, 70, 71, 85, 100}

CallCalculateOverallSentiment ==
    /\ fn = "calculate_overall_sentiment"
    /\ out = Unset
    /\ out' = IF arg.analyzer = "SentimentAnalyzerV2"
              THEN Val(CalculateOverallSentimentV2(arg.sentiment_scores))
              ELSE Val(CalculateOverallSentiment(arg.sentiment_scores))
    /\ UNCHANGED <<fn, arg, mrVars, valVars, topVars, logVars>>

InitAgg ==
    /\ FnOthersIdle
    /\ \E a \in Analyzers, ss \in SeqsOf(Scores, 0, MaxScores) :
          FnInput("calculate_overall_sentiment",
                  [analyzer |-> a, sentiment_scores |-> ss])

NextAgg == CallCalculateOverallSentiment

SpecAgg == InitAgg /\ [][NextAgg]_vars

\* ---- _merge_similar_clusters called on its own (clustering.py)
\* Clusters as the analysis call's parsed answer may hold them.
BatteryPrice ==
    Cluster(<<Word("battery", FALSE), Word("price", TRUE)>>, "s4", 1,
            <<"q1", "q3", "q5", "q6">>)
ScreenGlare == Cluster(<<Word("screen", TRUE)>>, "s5", 2, <<"q7", "q7">>)
ClusterPool == {PriceConcerns, PriceDiscussion, BatteryLife, BatteryPrice, ScreenGlare}

CallMergeSimilarClusters ==
    /\ fn = "_merge_similar_clusters"
    /\ out = Unset
    /\ out' = Val(MergeSimilarClusters(arg.clusters, arg.max_clusters))
    /\ UNCHANGED <<fn, arg, mrVars, valVars, topVars, logVars>>

InitMerge ==
    /\ FnOthersIdle
    /\ \E cs \in SeqsOf(ClusterPool, 0, MaxClusters), m \in 0..MaxClusters :
          FnInput("_merge_similar_clusters", [clusters |-> cs, max_clusters |-> m])

NextMerge == CallMergeSimilarClusters

SpecMerge == InitMerge /\ [][NextMerge]_vars

\* ---- _merge_similar_clusters, one turn of its outer loop at a time
\* The call reaches the loop, or returns the list as it is.
BeginMerge ==
    /\ fn = "_merge_similar_clusters"
    /\ out = Unset
    /\ out' = IF Len(arg.clusters) <= arg.max_clusters
              THEN [t |-> "val", v |-> arg.clusters, merged |-> <<>>, groups |-> <<>>]
              ELSE [t |-> "loop", i |-> 1, used_indices |-> {}, merged |-> <<>>,
                    groups |-> <<>>]
    /\ UNCHANGED <<fn, arg, mrVars, valVars, topVars, logVars>>

\* One turn of `for i, cluster in enumerate(clusters)`; groups lists, for
\* each turn that did not `continue`, the indices the turn added to
\* used_indices.
MergeStep ==
    /\ fn = "_merge_similar_clusters"
    /\ out.t = "loop"
    /\ out.i <= Len(arg.clusters)
    /\ out' =
          IF out.i \in out.used_indices
          THEN [out EXCEPT !.i = @ + 1]
          ELSE LET similar == Similar(arg.clusters, out.i, out.used_indices)
               IN  [out EXCEPT !.i = @ + 1,
                               !.used_indices = @ \cup similar,
                               !.merged = Append(@, MergedCluster(arg.clusters, out.i, similar)),
                               !.groups = Append(@, [seed |-> out.i, members |-> similar])]
    /\ UNCHANGED <<fn, arg, mrVars, valVars, topVars, logVars>>

\* merged.sort(...); return merged[:max_clusters]
MergeReturn ==
    /\ fn = "_merge_similar_clusters"
    /\ out.t = "loop"
    /\ out.i > Len(arg.clusters)
    /\ out' = [t |-> "val", v |-> Take(SortByCount(out.merged), arg.max_clusters),
               merged |-> out.merged, groups |-> out.groups]
    /\ UNCHANGED <<fn, arg, mrVars, valVars, topVars, logVars>>

NextGroup == BeginMerge \/ MergeStep \/ MergeReturn

SpecGroup == InitMerge /\ [][NextGroup]_vars

\* ---- split_posts and process_posts called on their own (map_reduce.py)
\* split_posts on a processor built with the given max_tokens_per_chunk.
CallSplitPosts ==
    /\ fn = "split_posts"
    /\ out = Unset
    /\ out' = Val(SplitPosts(arg.posts, arg.max_tokens_per_chunk))
    /\ UNCHANGED <<fn, arg, mrVars, valVars, topVars, logVars>>

\* process_posts with a map function that returns the length of its batch
\* and a reduce function that sums (kind "count"): up to the await on
\* map_phase.  The "call" of a chunk is the batch it is made on.
CallProcessPosts ==
    /\ fn = "process_posts"
    /\ pc[1] = "absent"
    /\ LET f == Fresh("count", arg.batch_size,
                      SplitPosts(arg.posts, arg.max_tokens_per_chunk), "idle")
       IN  /\ kind' = [kind EXCEPT ![1] = f.kind]
           /\ batch_size' = [batch_size EXCEPT ![1] = f.batch_size]
           /\ calls' = [calls EXCEPT ![1] = f.calls]
           /\ status' = [status EXCEPT ![1] = f.status]
           /\ batch_results' = [batch_results EXCEPT ![1] = f.batch_results]
           /\ pc' = [pc EXCEPT ![1] = f.pc]
    /\ UNCHANGED <<results, i, completion, reduce_calls, reduce_arg, ret, valVars,
                   topVars, fnVars, logVars>>

\* process_posts returns what reduce_phase gave.
ReturnProcessPosts ==
    /\ fn = "process_posts"
    /\ pc[1] = "returned"
    /\ out = Unset
    /\ out' = ret[1]
    /\ UNCHANGED <<fn, arg, mrVars, valVars, topVars, logVars>>

\* Contents of 0, 12 and 40 characters: 0, 3 and 10 estimated tokens.
SplitPostShapes == {Post(0, FALSE), Post(12, FALSE), Post(40, FALSE)}
\* 8 posts of 4500 characters: 9000 estimated tokens.
EightPosts == [n \in 1..8 |-> Post(4500, FALSE)]
SplitPostLists == SeqsOf(SplitPostShapes, 0, MaxSplitPosts) \cup {EightPosts}
ChunkBudgets == {1, 5, 10, 3000}

InitSplit ==
    /\ NoProcessor
    /\ ValIdle
    /\ TopIdle
    /\ LogIdle
    /\ \E ps \in SplitPostLists, m \in ChunkBudgets :
          \/ FnInput("split_posts", [posts |-> ps, max_tokens_per_chunk |-> m])
          \/ \E w \in 1..MaxWidth :
                FnInput("process_posts",
                        [posts |-> ps, max_tokens_per_chunk |-> m, batch_size |-> w])

NextSplit ==
    \/ CallSplitPosts
    \/ CallProcessPosts
    \/ Process(1)
    \/ \E k \in 1..NChunks(1) : Complete(1, k)
    \/ EndWave(1)
    \/ ReduceReturn(1)
    \/ ReturnProcessPosts

SpecSplit == InitSplit /\ [][NextSplit]_vars

\* The same calls on the lists none of whose posts is, alone, estimated
\* above max_tokens_per_chunk.
PostsFit(ps, max_tokens_per_chunk) ==
    \A n \in 1..Len(ps) : EstimateTokensFromChars(ContentLen(ps[n])) <= max_tokens_per_chunk

InitSplitFit == InitSplit /\ PostsFit(arg.posts, arg.max_tokens_per_chunk)

SpecSplitFit == InitSplitFit /\ [][NextSplit]_vars

\* ---- split_text_by_tokens called on its own (token_counter.py)
\* A text is the sequence 1..n of its tokens (of its characters when
\* tiktoken raises and the text is cut by characters).

\* seq[a:b] of Python, a and b possibly negative or past the end.
PyIndex(n, len) == IF n < 0 THEN Max(len + n, 0) ELSE Min(n, len)
PySlice(seq, a, b) == SubSeq(seq, PyIndex(a, Len(seq)) + 1, PyIndex(b, Len(seq)))

\* The size of a chunk and of the overlap in units of the text: tokens, or
\* int(n / 0.25) characters on the fallback path.
UnitsOf(n, exact) == IF exact THEN n ELSE 4 * n

\* Mutant of NextStart: the overlap is forgotten.
NextStartNoOverlap(end, overlap) == end

\* start = end - overlap
NextStart(end, overlap) == end - overlap

\* chunks = []; start = 0
BeginSplitText ==
    /\ fn = "split_text_by_tokens"
    /\ out = Unset
    /\ out' = [t |-> "loop", v |-> [chunks |-> <<>>, start |-> 0]]
    /\ UNCHANGED <<fn, arg, mrVars, valVars, topVars, logVars>>

\* One turn of the while loop.  A loop that has appended more chunks than
\* the text has units never ends (overlap >= max_tokens_per_chunk) and is
\* followed no further.
SplitTextStep ==
    /\ fn = "split_text_by_tokens"
    /\ out.t = "loop"
    /\ out.v.start < Len(arg.text)
    /\ Len(out.v.chunks) <= Len(arg.text)
    /\ LET end == out.v.start + UnitsOf(arg.max_tokens_per_chunk, arg.exact)
           chunk == PySlice(arg.text, out.v.start, end)
       IN  out' = [out EXCEPT !.v.chunks = Append(@, chunk),
                              !.v.start = NextStart(end, UnitsOf(arg.overlap, arg.exact))]
    /\ UNCHANGED <<fn, arg, mrVars, valVars, topVars, logVars>>

\* return chunks
SplitTextReturn ==
    /\ fn = "split_text_by_tokens"
    /\ out.t = "loop"
    /\ out.v.start >= Len(arg.text)
    /\ out' = Val(out.v.chunks)
    /\ UNCHANGED <<fn, arg, mrVars, valVars, topVars, logVars>>

InitText ==
    /\ FnOthersIdle
    /\ \E exact \in BOOLEAN, n \in 0..MaxTextTokens,
          m \in 1..MaxTokensPerChunk, o \in 0..MaxTokensPerChunk :
          FnInput("split_text_by_tokens",
                  [text |-> [k \in 1..UnitsOf(n, exact) |-> k], exact |-> exact,
                   max_tokens_per_chunk |-> m, overlap |-> o])

NextText == BeginSplitText \/ SplitTextStep \/ SplitTextReturn

SpecText == InitText /\ [][NextText]_vars

\* The call is not suspended for ever: the loop has no await.
SpecTextLive == SpecText /\ WF_vars(NextText)

\* ---- batch sentiment and its per-text fallback
\* The analysis calls a batch analysis made, in order: one record per call,
\* with the positions of the texts in its prompt, whether it failed (raised,
\* or answered text that does not parse) and, for a call on one text, what
\* analyze_sentiment gave for it.
BatchCall(items, failed) == [op |-> "batch", items |-> items, failed |-> failed, gave |-> Unset]
SingleCall(j, failed, gave) == [op |-> "single", items |-> <<j>>, failed |-> failed, gave |-> gave]

\* SentimentAnalyzerV2._analyze_individually, with the calls it makes: text j
\* is analysed by the j-th call of analyze_sentiment.
AnalyzeIndividuallyCalls(texts) ==
    [j \in 1..Len(texts) |->
        SingleCall(j, ChainThenValidate(CallAt(j)).t # "val", SentimentDirect(CallAt(j)))]

\* SentimentAnalyzerV2._analyze_batch_direct, with the calls it makes: the
\* batch chain's call, then the fallback's when the try block raised.
AnalyzeBatchDirectCalls(texts, b) ==
    LET answered == b.o = "ok" /\ \A n \in 1..Len(b.r) : ValidateResult(b.r[n]).t = "val"
    IN  <<BatchCall([j \in 1..Len(texts) |-> j], ~answered)>>
            \o (IF answered THEN <<>> ELSE AnalyzeIndividuallyCalls(texts))

\* sentiment.py, SentimentAnalyzer.analyze_sentiment (the analyzer that
\* pipeline.py builds).  Its first except clause names json.JSONDecodeError
\* and json is a local name, bound by the import inside the try block
\* after the call: when chat_completion raises, matching the clause
\* raises UnboundLocalError, which leaves analyze_sentiment.
SentimentAnalyzerDefault(reasoning) ==
    [score |-> PyInt(50), label |-> "neutral", confidence |-> 0, reasoning |-> reasoning]

SentimentAnalyzerAnalyzeSentiment(b) ==
    CASE b.o = "exc" -> Raised("UnboundLocalError")
      [] b.o = "unparsable" -> Val(SentimentAnalyzerDefault("JSON parse failed"))
      [] b.o = "ok" ->
             Val(SetDefault(SetDefault(SetDefault(SetDefault(b.r,
                     "score", PyInt(50)), "label", "neutral"), "confidence", 0),
                     "reasoning", "Missing key"))

\* SentimentAnalyzer.analyze_batch: batch_size = 10
SentimentAnalyzerBatchSize == 10

\* The fallback loop of one batch, from text j to text hi; acc holds the
\* results and the calls so far.  An exception leaves the loop.
RECURSIVE FallbackFrom(_, _, _)
FallbackFrom(j, hi, acc) ==
    IF j > hi THEN [t |-> "val", results |-> acc.results, calls |-> acc.calls]
    ELSE LET result == SentimentAnalyzerAnalyzeSentiment(CallAt(j))
             made == Append(acc.calls, SingleCall(j, CallAt(j).o # "ok", result))
         IN  IF result.t # "val"
             THEN [t |-> result.t, results |-> acc.results, calls |-> made]
             ELSE FallbackFrom(j + 1, hi,
                               [results |-> Append(acc.results, result.v), calls |-> made])

\* The loop over the batches, from batch k (1-based) of n texts; replies
\* lists what the batch calls do, in turn.
RECURSIVE AnalyzeBatchFrom(_, _, _, _)
AnalyzeBatchFrom(k, n, replies, acc) ==
    LET lo == (k - 1) * SentimentAnalyzerBatchSize + 1
        hi == Min(k * SentimentAnalyzerBatchSize, n)
        b == replies[((k - 1) % Len(replies)) + 1]
        made == Append(acc.calls, BatchCall([j \in 1..(hi - lo + 1) |-> lo + j - 1], b.o # "ok"))
    IN  IF lo > n THEN [t |-> "val", results |-> acc.results, calls |-> acc.calls]
        ELSE IF b.o = "ok"
             THEN AnalyzeBatchFrom(k + 1, n, replies,
                                   [results |-> acc.results \o b.r, calls |-> made])
             ELSE LET fb == FallbackFrom(lo, hi, [results |-> acc.results, calls |-> made])
                  IN  IF fb.t # "val" THEN fb
                      ELSE AnalyzeBatchFrom(k + 1, n, replies,
                                            [results |-> fb.results, calls |-> fb.calls])

\* What a batch analysis gave: the list returned or the exception raised,
\* and the calls made.
BatchOutcome(result, made) == [t |-> "batch", result |-> result, calls |-> made]

\* SentimentAnalyzer.analyze_batch(texts)
CallAnalyzeBatch ==
    /\ fn = "SentimentAnalyzer.analyze_batch"
    /\ out = Unset
    /\ LET r == AnalyzeBatchFrom(1, Len(arg.texts), arg.replies, [results |-> <<>>, calls |-> <<>>])
       IN  out' = BatchOutcome(IF r.t = "val" THEN Val(r.results) ELSE Raised(r.t), r.calls)
    /\ UNCHANGED <<fn, arg, mrVars, valVars, topVars, logVars>>

\* SentimentAnalyzerV2._analyze_batch_direct(texts)
CallAnalyzeBatchDirect ==
    /\ fn = "SentimentAnalyzerV2._analyze_batch_direct"
    /\ out = Unset
    /\ out' = BatchOutcome(AnalyzeBatchDirect(arg.texts, arg.replies[1]),
                           AnalyzeBatchDirectCalls(arg.texts, arg.replies[1]))
    /\ UNCHANGED <<fn, arg, mrVars, valVars, topVars, logVars>>

\* What the batch calls of the older analyzer do.
OneRecordReplies ==
    {Reply("exc", <<>>), Reply("unparsable", <<>>),
     Reply("ok", <<("score" :> PyInt(90)) @@ ("label" :> "positive")>>)}

\* No top-level call is made; the analysis calls do what l lists.
AnalysisCallsDo(l) ==
    /\ entry = "none"
    /\ use_map_reduce = FALSE
    /\ tokens = 0
    /\ posts = <<>>
    /\ top_n = 3
    /\ text_chunks = 0
    /\ llm = l
    /\ batch_reply = NoReply
    /\ top_pc = "none"
    /\ top_ret = Unset
    /\ path = "none"
    /\ sent = <<>>

InitBatch ==
    /\ NoProcessor
    /\ ValIdle
    /\ LogIdle
    /\ \E m \in 0..MaxBatchTexts, l \in SeqsOf(SentimentReplies, 2, 2) :
          /\ AnalysisCallsDo(l)
          /\ \/ \E rs \in SeqsOf(OneRecordReplies, 2, 2) :
                   FnInput("SentimentAnalyzer.analyze_batch",
                           [texts |-> [j \in 1..m |-> Post(100, FALSE)], replies |-> rs])
             \/ \E b \in BatchReplies :
                   FnInput("SentimentAnalyzerV2._analyze_batch_direct",
                           [texts |-> [j \in 1..m |-> Post(100, FALSE)], replies |-> <<b>>])

NextBatch == CallAnalyzeBatch \/ CallAnalyzeBatchDirect

SpecBatch == InitBatch /\ [][NextBatch]_vars

\* ---- LLMClient.chat_completion (client.py)
\* What one HTTP attempt meets: an answer with status 200 and a non-empty
\* choices list holding the content, a status other than 200, an answer
\* without choices, aiohttp.ClientError, or json.JSONDecodeError.
AttemptOutcomes == {"ok", "status", "no_choices", "ClientError", "JSONDecodeError"}

RECURSIVE Pow2(_)
Pow2(n) == IF n = 0 THEN 1 ELSE 2 * Pow2(n - 1)

\* Mutant of Backoff: one second after every failed attempt.
BackoffOneSecond(attempt) == 1

\* asyncio.sleep(2 ** attempt)
Backoff(attempt) == Pow2(attempt)

\* The content of the answer attempt number `attempt` (0-based) received.
ContentOf(attempt) == <<"content", attempt>>

PostEvent(attempt) == [e |-> "post", attempt |-> attempt, seconds |-> 0]
SleepEvent(attempt, seconds) == [e |-> "sleep", attempt |-> attempt, seconds |-> seconds]

\* The call runs up to its loop; without an API key it raises at once.
BeginChatCompletion ==
    /\ fn = "chat_completion"
    /\ out = Unset
    /\ out' = IF ~arg.api_key
              THEN [t |-> "ValueError", v |-> <<>>, events |-> <<>>]
              ELSE [t |-> "loop", attempt |-> 0, events |-> <<>>]
    /\ UNCHANGED <<fn, arg, mrVars, valVars, topVars, logVars>>

\* One turn of `for attempt in range(retry_count)`: the request is posted;
\* the turn returns the content, raises, or goes to sleep.
Attempt ==
    /\ fn = "chat_completion"
    /\ out.t = "loop"
    /\ out.attempt < arg.retry_count
    /\ LET met == arg.outcomes[out.attempt + 1]
           posted == Append(out.events, PostEvent(out.attempt))
       IN  out' =
             IF met = "ok"
             THEN [t |-> "val", v |-> ContentOf(out.attempt), events |-> posted]
             ELSE IF out.attempt < arg.retry_count - 1
                  THEN [t |-> "sleep", attempt |-> out.attempt,
                        events |-> Append(posted, SleepEvent(out.attempt, Backoff(out.attempt)))]
                  ELSE [t |-> "Exception", v |-> <<>>, events |-> posted]
    /\ UNCHANGED <<fn, arg, mrVars, valVars, topVars, logVars>>

\* asyncio.sleep returns: `continue`.
Wake ==
    /\ fn = "chat_completion"
    /\ out.t = "sleep"
    /\ out' = [t |-> "loop", attempt |-> out.attempt + 1, events |-> out.events]
    /\ UNCHANGED <<fn, arg, mrVars, valVars, topVars, logVars>>

\* The loop ends without a return: raise Exception("Failed after ...").
FallThrough ==
    /\ fn = "chat_completion"
    /\ out.t = "loop"
    /\ out.attempt >= arg.retry_count
    /\ out' = [t |-> "Exception", v |-> <<>>, events |-> out.events]
    /\ UNCHANGED <<fn, arg, mrVars, valVars, topVars, logVars>>

InitRetry ==
    /\ FnOthersIdle
    /\ \E retry_count \in 0..MaxRetryCount, api_key \in BOOLEAN,
          outcomes \in SeqsOf(AttemptOutcomes, MaxRetryCount, MaxRetryCount) :
          FnInput("chat_completion",
                  [retry_count |-> retry_count, api_key |-> api_key, outcomes |-> outcomes])

NextRetry == BeginChatCompletion \/ Attempt \/ Wake \/ FallThrough

SpecRetry == InitRetry /\ [][NextRetry]_vars

\* ---- AnalysisLogger and get_analysis_logger (utils/logger.py)
\* AnalysisLogger.__init__.  operation_start_time 0 stands for None;
\* total_cost_estimate is in units of $0.0005.
NewLogger ==
    [total_input_tokens |-> 0, total_output_tokens |-> 0, total_cost_estimate |-> 0,
     api_calls |-> 0, operation_start_time |-> 0, operation_durations |-> EmptyDict]

\* _get_pricing for a model in neither table: (0.50, 1.50) per 1000 tokens.
CostOf(input_tokens, output_tokens) == input_tokens * 1 + output_tokens * 3

Acted(a, op, name) == [by |-> a, op |-> op, name |-> name]

\* An instance is built: its __init__ runs self.logger = get_analysis_logger(),
\* which creates the global AnalysisLogger when it is None and returns it.
Construct(a) ==
    /\ instance_logger[a] = 0
    /\ IF analysis_logger = 0
       THEN /\ loggers' = Append(loggers, NewLogger)
            /\ analysis_logger' = Len(loggers) + 1
       ELSE UNCHANGED <<loggers, analysis_logger>>
    /\ instance_logger' = [instance_logger EXCEPT ![a] = analysis_logger']
    /\ acted' = Acted(a, "__init__", "none")
    /\ UNCHANGED <<clock, started, mrVars, valVars, topVars, fnVars>>

\* self.logger.log_api_call(...) on behalf of instance a.
LogApiCall(a, input_tokens, output_tokens) ==
    /\ instance_logger[a] # 0
    /\ loggers[instance_logger[a]].api_calls < MaxApiCalls
    /\ loggers' = [loggers EXCEPT ![instance_logger[a]] =
                      [@ EXCEPT !.api_calls = @ + 1,
                                !.total_input_tokens = @ + input_tokens,
                                !.total_output_tokens = @ + output_tokens,
                                !.total_cost_estimate =
                                    @ + CostOf(input_tokens, output_tokens)]]
    /\ acted' = Acted(a, "log_api_call", "none")
    /\ UNCHANGED <<analysis_logger, instance_logger, clock, started,
                   mrVars, valVars, topVars, fnVars>>

\* AnalysisPipeline.reset_tracking: self.logger.reset_token_tracking()
ResetTracking(a) ==
    /\ instance_logger[a] # 0
    /\ loggers' = [loggers EXCEPT ![instance_logger[a]] =
                      [@ EXCEPT !.api_calls = 0,
                                !.total_input_tokens = 0,
                                !.total_output_tokens = 0,
                                !.total_cost_estimate = 0,
                                !.operation_durations = EmptyDict]]
    /\ acted' = Acted(a, "reset_tracking", "none")
    /\ UNCHANGED <<analysis_logger, instance_logger, clock, started,
                   mrVars, valVars, topVars, fnVars>>

\* AnalysisLogger.start_operation(operation_name)
StartOperation(a, operation_name) ==
    /\ instance_logger[a] # 0
    /\ loggers' = [loggers EXCEPT ![instance_logger[a]].operation_start_time = clock]
    /\ started' = started \cup {<<instance_logger[a], operation_name>>}
    /\ acted' = Acted(a, "start_operation", operation_name)
    /\ UNCHANGED <<analysis_logger, instance_logger, clock, mrVars, valVars, topVars, fnVars>>

\* AnalysisLogger.end_operation(operation_name)
EndOperation(a, operation_name) ==
    /\ instance_logger[a] # 0
    /\ LET self == loggers[instance_logger[a]]
           duration == clock - self.operation_start_time
       IN  loggers' =
               IF self.operation_start_time # 0
               THEN [loggers EXCEPT ![instance_logger[a]] =
                        [@ EXCEPT !.operation_durations =
                                      (operation_name :> duration) @@ @,
                                  !.operation_start_time = 0]]
               ELSE loggers
    /\ started' = started \ {<<instance_logger[a], operation_name>>}
    /\ acted' = Acted(a, "end_operation", operation_name)
    /\ UNCHANGED <<analysis_logger, instance_logger, clock, mrVars, valVars, topVars, fnVars>>

\* Time passes.
Tick ==
    /\ clock < MaxClock
    /\ clock' = clock + 1
    /\ UNCHANGED <<analysis_logger, loggers, instance_logger, acted, started,
                   mrVars, valVars, topVars, fnVars>>

\* cluster_opinions times "opinion_clustering" around the processor's
\* "clustering_map_reduce (Map)" and "clustering_map_reduce (Reduce)".
OperationNames == {"opinion_clustering", "clustering_map_reduce (Map)"}
TokenAmounts == {1, 2}

InitLogger == NoProcessor /\ ValIdle /\ TopIdle /\ FnIdle /\ LogIdle

NextLogger ==
    \/ \E a \in Instances : Construct(a)
    \/ \E a \in Instances, input_tokens \in TokenAmounts, output_tokens \in TokenAmounts :
          LogApiCall(a, input_tokens, output_tokens)
    \/ \E a \in Instances : ResetTracking(a)
    \/ \E a \in Instances, operation_name \in OperationNames :
          StartOperation(a, operation_name)
    \/ \E a \in Instances, operation_name \in OperationNames :
          EndOperation(a, operation_name)
    \/ Tick

SpecLogger == InitLogger /\ [][NextLogger]_vars

\* ------------------------------------------------------------------ claims
MapPhaseReturned(p) == pc[p] \in {"reduce", "returned"}

\* The 0-based number of the wave chunk k belongs to.
WaveOf(p, k) == (k - 1) \div batch_size[p]

\* Chunks whose map call raises an Exception / returns a value that is kept.
Raising(p) == {k \in 1..NChunks(p) : calls[p][k] = "exc"}
Successful(p) == {k \in 1..NChunks(p) : calls[p][k] = "ok"}

\* The results of the successful chunks in increasing chunk order.
SuccessfulInOrder(p) ==
    SelectSeq([k \in 1..NChunks(p) |-> Val(k)], LAMBDA r : r.v \in Successful(p))

\* C1: when the map call of some chunk raises (an Exception), the map
\* function has still been invoked and awaited on every other chunk of the
\* same and of all later waves by the time map_phase returns, map_phase does
\* return (it hands its list to reduce_func), and no element of the returned
\* list comes from a raising call: the list holds no exception instance and
\* exactly one element per chunk whose call neither raised an Exception nor
\* returned None.
C1_RaisingCallIsolated ==
    \A p \in Procs :
        (kind[p] = "generic" /\ Raising(p) # {}) =>
            /\ MapPhaseReturned(p) =>
                 /\ \A k \in 1..NChunks(p) : status[p][k] = "done"
                 /\ Len(completion[p]) = NChunks(p)
                 /\ \A n \in 1..Len(reduce_arg[p]) : reduce_arg[p][n].t # "Exception"
                 /\ Len(reduce_arg[p]) =
                      Cardinality({k \in 1..NChunks(p) : calls[p][k] \notin {"exc", "none"}})
            /\ (pc[p] = "gather" /\ WaveDone(p)) => ENABLED EndWave(p)

\* A run in which the first chunk raised, a chunk of a later wave succeeded
\* and map_phase returned a non-empty list.
C1_Witness ==
    /\ pc[1] = "returned"
    /\ NChunks(1) >= 3
    /\ calls[1][1] = "exc"
    /\ \E k \in Successful(1) : WaveOf(1, k) > 0
    /\ \E k \in Successful(1) : WaveOf(1, k) = 0
    /\ Len(reduce_arg[1]) >= 2

\* C2: whatever the order in which the concurrent map calls complete, the
\* successful chunks' results appear in the list handed to reduce_func in
\* increasing chunk-index order, none missing and none repeated.
C2_ReduceInputInChunkOrder ==
    \A p \in Procs :
        (kind[p] = "generic" /\ reduce_calls[p] > 0) =>
            SelectSeq(reduce_arg[p], LAMBDA r : r.t = "val") = SuccessfulInOrder(p)

\* A later-indexed chunk completed before an earlier one of the same wave,
\* both succeeded, and reduce_func got both.
C2_Witness ==
    /\ pc[1] = "returned"
    /\ \E a, b \in 1..Len(completion[1]) :
          /\ a < b
          /\ completion[1][a] > completion[1][b]
          /\ {completion[1][a], completion[1][b]} \subseteq Successful(1)
    /\ Len(reduce_arg[1]) >= 2

\* C3: with a map function that fails (raises an Exception) on every chunk,
\* reduce_func is invoked exactly once, with the empty list, process returns
\* exactly the value of that invocation, and the operation never ends in an
\* exception of its own: until it has returned (or its caller cancelled it)
\* it can always take its next step.
AllFail(p) == NChunks(p) >= 1 /\ Raising(p) = 1..NChunks(p)

C3_AllFailReducesEmpty ==
    \A p \in Procs :
        (kind[p] = "generic" /\ AllFail(p)) =>
            /\ reduce_calls[p] <= 1
            /\ reduce_calls[p] = 1 => reduce_arg[p] = <<>>
            /\ MapPhaseReturned(p) => reduce_calls[p] = 1
            /\ pc[p] = "returned" => ret[p] = ReduceFunc("generic", <<>>, Reply("none", <<>>))
            /\ pc[p] \in {"idle", "gather", "reduce", "returned", "cancelled"}
            /\ pc[p] = "idle" => ENABLED Process(p)
            /\ pc[p] = "gather" =>
                 (ENABLED EndWave(p) \/ \E k \in InFlight(p) : ENABLED Complete(p, k))
            /\ pc[p] = "reduce" => ENABLED ReduceReturn(p)

\* Every chunk of a multi-wave operation failed and the operation returned.
C3_Witness ==
    /\ pc[1] = "returned"
    /\ AllFail(1)
    /\ NChunks(1) > batch_size[1]
    /\ reduce_calls[1] = 1

\* C4: at most batch_size map calls of one map_phase are in flight, no call
\* of a wave is in flight (or done) before every call of the earlier waves
\* is done, and the width is per processor: whether a processor may start or
\* end a wave never depends on the other processor's calls in flight.
C4_WavesBounded ==
    \A p \in Procs :
        /\ Cardinality(InFlight(p)) <= batch_size[p]
        /\ \A k, e \in 1..NChunks(p) :
              (status[p][k] \in {"running", "done"} /\ WaveOf(p, e) < WaveOf(p, k))
                  => status[p][e] = "done"
        /\ pc[p] = "idle" => ENABLED Process(p)
        /\ (pc[p] = "gather" /\ WaveDone(p)) => ENABLED EndWave(p)
        /\ \A k \in InFlight(p) : pc[p] = "gather" => ENABLED Complete(p, k)

\* Both processors have a full wave in flight at once, the first one its
\* second wave, the second one a wave of two or more calls: together more
\* calls than either width allows.
C4_Witness ==
    /\ Cardinality(InFlight(1)) = batch_size[1]
    /\ Cardinality(InFlight(2)) = batch_size[2]
    /\ batch_size[2] >= 2
    /\ i[1] > 0
    /\ Cardinality(InFlight(1)) + Cardinality(InFlight(2)) > Max(batch_size[1], batch_size[2])

\* C5: a cancelled operation leaves no chunk call in flight, returns no
\* value and, when cancelled during the map phase, never runs reduce_func;
\* and a cancellation signalled inside a chunk call (the call raising
\* CancelledError) is never handed to reduce_func as a partial result.
C5_CancellationNeverReduced ==
    \A p \in Procs :
        /\ pc[p] = "cancelled" =>
              /\ InFlight(p) = {}
              /\ ret[p].t = "unset"
              /\ i[p] < NChunks(p) => reduce_calls[p] = 0
        /\ \A n \in 1..Len(reduce_arg[p]) : reduce_arg[p][n].t # "CancelledError"

\* The part of C5 about cancelling the operation as a whole.
C5_OuterCancellationDiscards ==
    \A p \in Procs :
        pc[p] = "cancelled" =>
            /\ InFlight(p) = {}
            /\ ret[p].t = "unset"
            /\ i[p] < NChunks(p) => reduce_calls[p] = 0

\* The chunks of a pipeline's processor whose analysis call failed: it
\* raised (a timeout raises too), or its answer did not parse or validate.
ChunkFailed(p, k) ==
    CASE kind[p] = "sentiment" -> ChainThenValidate(calls[p][k]).t # "val"
      [] kind[p] = "cluster" -> calls[p][k].o # "ok"
      [] kind[p] = "summary" -> calls[p][k].o # "ok"
      [] OTHER -> FALSE

Pipelines == {"sentiment", "cluster", "summary"}

\* What the chunks whose call succeeded gave, in chunk order.
SucceededResults(p) ==
    LET ks == SelectSeq([k \in 1..NChunks(p) |-> k], LAMBDA k : ~ChunkFailed(p, k))
    IN  [n \in 1..Len(ks) |-> MapFunc(kind[p], calls[p][ks[n]], ks[n])]

\* The scores, clusters or partial summaries a list of map results holds.
Contributions(kd, lst) ==
    IF kd = "cluster" THEN Flatten(Payloads(lst)) ELSE Payloads(lst)

\* C6: in each pipeline, the list handed to the reduce function holds what
\* the chunks whose analysis call succeeded gave and nothing for a chunk
\* whose call failed, and the aggregate returned is the one computed from
\* the successful chunks only.
C6_FailedChunksOmitted ==
    \A p \in Procs :
        (kind[p] \in Pipelines /\ reduce_calls[p] > 0) =>
            /\ Contributions(kind[p], reduce_arg[p])
                  = Contributions(kind[p], SucceededResults(p))
            /\ pc[p] = "returned" =>
                  \E o \in ReduceBehaviours(kind[p]) :
                      ret[p] = ReduceFunc(kind[p], SucceededResults(p), o)

\* The fixed results of a pipeline none of whose chunks succeeded.
IsFixedDefault(e, r) ==
    CASE e = "analyze_sentiment" ->
             /\ r.t = "val"
             /\ r.v["score"] = PyInt(50)
             /\ r.v["label"] = "neutral"
      [] e = "cluster_opinions" -> r = Val(<<>>)
      [] e = "summarize_discussion" ->
             r \in {Val(NoSubstantialDiscussion), Val(NoSummaryGenerated)}
      [] OTHER -> TRUE

\* C7: when the analysis call of every chunk of a map-reduce pipeline
\* failed, the top-level call returns the pipeline's fixed default: score 50
\* with label neutral, the empty cluster list, or the fixed summary string.
C7_AllChunksFailDefault ==
    (/\ top_pc = "done"
     /\ kind[1] \in Pipelines
     /\ \A k \in 1..NChunks(1) : ChunkFailed(1, k)) =>
        IsFixedDefault(entry, top_ret)

\* What analyze_batch gives on its map-reduce path when each batch is
\* analysed on its own and the results are concatenated in batch order.
PerBatchConcatenation ==
    LET batches == SplitPosts(posts, 2000)
    IN  Flatten([n \in 1..Len(batches) |-> AnalyzeBatchDirect(batches[n], batch_reply).v])

\* C8: a top-level call on non-empty input returns a value, whatever its
\* analysis calls do, and analyze_batch on its map-reduce path returns the
\* concatenation of the per-batch results.
C8_TopLevelNeverRaises ==
    (top_pc = "done" /\ (entry = "analyze_sentiment" \/ posts # <<>>)) =>
        /\ top_ret.t = "val"
        /\ (entry = "analyze_batch" /\ (tokens > 4000 \/ use_map_reduce)) =>
              top_ret.v = PerBatchConcatenation

\* C9: whatever raw dict _validate_result is given, it returns a record
\* whose score is an integer in 0..100 and whose label is one of positive,
\* neutral, negative (out-of-range scores clamped, never rejected).
C9_ValidatedWellFormed ==
    validated.t # "unset" =>
        /\ validated.t = "val"
        /\ validated.v["score"].k = "int"
        /\ validated.v["score"].n \in 0..100
        /\ validated.v["label"] \in valid_labels

\* The same for the raw dicts whose score Python's int() converts.
C9_NumericScoreWellFormed ==
    (validated.t # "unset" /\ IntOf(SetDefault(raw, "score", PyInt(50))["score"]).t = "val") =>
        /\ validated.t = "val"
        /\ validated.v["score"].k = "int"
        /\ validated.v["score"].n \in 0..100
        /\ validated.v["label"] \in valid_labels

\* C10: when the raw label is present but not one of the three values (and
\* the score is one int() converts, so that a record is returned), the
\* returned label is derived from the returned, clamped score: positive
\* from 60, neutral from 40 to 59, negative below 40.
C10_LabelRederived ==
    (/\ validated.t # "unset"
     /\ "label" \in DOMAIN raw
     /\ raw["label"] \notin {"positive", "neutral", "negative"}
     /\ IntOf(SetDefault(raw, "score", PyInt(50))["score"]).t = "val") =>
        /\ validated.t = "val"
        /\ LET score == validated.v["score"].n
               label == validated.v["label"]
           IN  /\ score >= 60 => label = "positive"
               /\ (40 <= score /\ score < 60) => label = "neutral"
               /\ score < 40 => label = "negative"

\* An unknown label with a score above the range: clamped to 100, positive.
C10_Witness ==
    /\ validated.t = "val"
    /\ "label" \in DOMAIN raw
    /\ raw["label"] = "mixed"
    /\ "score" \in DOMAIN raw
    /\ raw["score"] = PyInt(150)
    /\ validated.v["score"].n = 100
    /\ validated.v["label"] = "positive"

\* What the aggregate of a list of scores is to be: 50.0 for the empty
\* list, the mean rounded to one decimal otherwise.
ExpectedOverall(ss) ==
    IF ss = <<>> THEN Rat(50, 1) ELSE RoundOneDecimal(SumSeq(ss), Len(ss))

\* C11: calculate_overall_sentiment returns 50.0 for the empty list, x for
\* a single score x and in general the mean of the scores rounded to one
\* decimal, for SentimentAnalyzerV2 and for the analyzer the pipeline uses.
C11_OverallIsRoundedMean ==
    (fn = "calculate_overall_sentiment" /\ out.t = "val") =>
        LET ss == arg.sentiment_scores
        IN  /\ RatEq(out.v, ExpectedOverall(ss))
            /\ Len(ss) = 1 => RatEq(out.v, Rat(ss[1], 1))

\* The same for SentimentAnalyzerV2 alone.
C11_V2IsRoundedMean ==
    (/\ fn = "calculate_overall_sentiment"
     /\ out.t = "val"
     /\ arg.analyzer = "SentimentAnalyzerV2") =>
        LET ss == arg.sentiment_scores
        IN  /\ RatEq(out.v, ExpectedOverall(ss))
            /\ Len(ss) = 1 => RatEq(out.v, Rat(ss[1], 1))

MergeReturned == fn = "_merge_similar_clusters" /\ out.t = "val"

SortedByCountDescending(cs) ==
    \A a, b \in 1..Len(cs) : a < b => cs[a].mention_count >= cs[b].mention_count

\* C12: for every list of clusters and every max_clusters >= 0, the list
\* _merge_similar_clusters returns has at most max_clusters elements and is
\* in descending order of mention_count.
C12_MergedBoundedAndSorted ==
    MergeReturned =>
        /\ Len(out.v) <= arg.max_clusters
        /\ SortedByCountDescending(out.v)

\* The same for the lists of more than max_clusters clusters.
C12_LongerListBoundedAndSorted ==
    (MergeReturned /\ Len(arg.clusters) > arg.max_clusters) =>
        /\ Len(out.v) <= arg.max_clusters
        /\ SortedByCountDescending(out.v)

\* Two clusters' labels have a word in common, capitals aside.
Shares(cs, a, b) ==
    \E m \in 1..Len(cs[a].label), n \in 1..Len(cs[b].label) :
        cs[a].label[m].s = cs[b].label[n].s

\* The clusters that go with cluster a.
ClassOf(cs, a) == {a} \cup {b \in 1..Len(cs) : Shares(cs, a, b)}

\* Sharing a word is transitive over the list, so that the groups are the
\* classes whatever the order of the list.
GroupsAreClasses(cs) ==
    \A a, b, c \in 1..Len(cs) : (Shares(cs, a, b) /\ Shares(cs, b, c)) => Shares(cs, a, c)

FirstOf(S) == CHOOSE a \in S : \A b \in S : a <= b

\* r holds the first `limit` distinct elements of qs in encounter order.
IsFirstDistinct(r, qs, limit) ==
    /\ Len(r) = Min(limit, Cardinality({qs[x] : x \in 1..Len(qs)}))
    /\ \A k \in 1..Len(r) :
          LET seen == {r[j] : j \in 1..(k - 1)}
              fresh == {x \in 1..Len(qs) : qs[x] \notin seen}
          IN  fresh # {} /\ r[k] = qs[FirstOf(fresh)]

QuotesAcross(cs, S) ==
    Flatten([k \in 1..Len(cs) |-> IF k \in S THEN cs[k].sample_quotes ELSE <<>>])
CountAcross(cs, S) ==
    SumSeq([k \in 1..Len(cs) |-> IF k \in S THEN cs[k].mention_count ELSE 0])

C14_ShortListUnchanged ==
    (MergeReturned /\ Len(arg.clusters) <= arg.max_clusters) =>
        out.v = arg.clusters

\* Two clusters that share a word and stand in ascending order of
\* mention_count come back as they were when max_clusters is 2.
C14_Witness ==
    /\ MergeReturned
    /\ arg.clusters = <<PriceDiscussion, PriceConcerns>>
    /\ arg.max_clusters = 2
    /\ out.v = <<PriceDiscussion, PriceConcerns>>

NoDuplicates(seq) == \A a, b \in 1..Len(seq) : a # b => seq[a] # seq[b]

\* C15: every cluster the merger returns, synthesized or passed through,
\* has at most 3 sample_quotes, no two of them equal, and a mention_count
\* of at least 0.
C15_ReturnedClustersWellFormed ==
    MergeReturned =>
        \A n \in 1..Len(out.v) :
            /\ Len(out.v[n].sample_quotes) <= 3
            /\ NoDuplicates(out.v[n].sample_quotes)
            /\ out.v[n].mention_count >= 0

SplitReturned == fn = "split_posts" /\ out.t = "val"

\* ceil(a / b)
CeilDiv(a, b) == (a + b - 1) \div b

\* The token estimate of the contents of a list of posts: a quarter of the
\* characters, rounded down.
TokenEstimate(ps) == SumSeq([idx \in 1..Len(ps) |-> ps[idx].len]) \div 4

\* C16: split_posts divides a non-empty list into exactly
\* ceil(estimatedTokens / max_tokens_per_chunk) groups, and at least one;
\* 8 posts estimated at 9000 tokens against 3000 give at least 3 groups.
C16_GroupCountIsCeiling ==
    (SplitReturned /\ arg.posts # <<>>) =>
        /\ Len(out.v) = Max(1, CeilDiv(TokenEstimate(arg.posts), arg.max_tokens_per_chunk))
        /\ (arg.posts = EightPosts /\ arg.max_tokens_per_chunk = 3000) => Len(out.v) >= 3

\* The parts of it that do hold: at least one group, and at least 3 in the
\* example.
C16_AtLeastOneGroup ==
    (SplitReturned /\ arg.posts # <<>>) =>
        /\ Len(out.v) >= 1
        /\ (arg.posts = EightPosts /\ arg.max_tokens_per_chunk = 3000) => Len(out.v) >= 3

\* C17: the batches split_posts returns are non-empty, their concatenation
\* is the list it was given, and a non-empty list gives between 1 and
\* len(posts) batches; so process_posts with a map function returning the
\* length of its batch and a summing reduce function returns len(posts).
C17_BatchesPartitionPosts ==
    /\ SplitReturned =>
          /\ \A b \in 1..Len(out.v) : out.v[b] # <<>>
          /\ Flatten(out.v) = arg.posts
          /\ arg.posts # <<>> => (1 <= Len(out.v) /\ Len(out.v) <= Len(arg.posts))
    /\ (fn = "process_posts" /\ out # Unset) => out = Val(Len(arg.posts))

\* Five posts of uneven sizes cut into batches of 2, 2 and 1 posts, counted
\* by process_posts.
C17_Witness ==
    /\ fn = "process_posts"
    /\ Len(arg.posts) = 5
    /\ \E a, b \in 1..5 : arg.posts[a].len # arg.posts[b].len
    /\ Len(calls[1]) = 3
    /\ Len(calls[1][3]) = 1
    /\ out = Val(5)

\* C18: the estimated token count of every batch split_posts returns is at
\* most max_tokens_per_chunk.
C18_BatchWithinBudget ==
    SplitReturned =>
        \A b \in 1..Len(out.v) : TokenEstimate(out.v[b]) <= arg.max_tokens_per_chunk

SplitTextReturned == fn = "split_text_by_tokens" /\ out.t = "val"

\* A chunk is a stretch of the text: consecutive units.
IsStretch(chunk) == \A j \in 1..(Len(chunk) - 1) : chunk[j + 1] = chunk[j] + 1

\* The last s units of prev are the first s units of next.
SharesEnd(prev, next, s) ==
    /\ s <= Len(prev)
    /\ s <= Len(next)
    /\ \A j \in 1..s : prev[Len(prev) - s + j] = next[j]

\* C19: split_text_by_tokens returns chunks in text order, each of at most
\* max_tokens_per_chunk tokens, and each chunk after the first begins with
\* the final `overlap` tokens of the chunk before it, or, when fewer remain
\* there, is made of those that remain.
C19_ChunksOverlapInOrder ==
    SplitTextReturned =>
        LET max == UnitsOf(arg.max_tokens_per_chunk, arg.exact)
            overlap == UnitsOf(arg.overlap, arg.exact)
        IN  /\ \A k \in 1..Len(out.v) :
                  /\ out.v[k] # <<>>
                  /\ IsStretch(out.v[k])
                  /\ Len(out.v[k]) <= max
                  /\ ~arg.exact => Len(out.v[k]) \div 4 <= arg.max_tokens_per_chunk
            /\ \A k \in 1..(Len(out.v) - 1) :
                  /\ out.v[k][1] < out.v[k + 1][1]
                  /\ \/ SharesEnd(out.v[k], out.v[k + 1], overlap)
                     \/ \E s \in 1..overlap :
                           /\ SharesEnd(out.v[k], out.v[k + 1], s)
                           /\ Len(out.v[k + 1]) = s

\* Six tokens cut by 3 with an overlap of 2: 1 2 3, 2 3 4, 3 4 5, 4 5 6,
\* 5 6 and 6; the last two chunks hold what remained.
C19_Witness ==
    /\ SplitTextReturned
    /\ arg.exact
    /\ arg.max_tokens_per_chunk = 3
    /\ arg.overlap = 2
    /\ Len(arg.text) = 6
    /\ out.v = <<<<1, 2, 3>>, <<2, 3, 4>>, <<3, 4, 5>>, <<4, 5, 6>>, <<5, 6>>, <<6>>>>

\* The token total an entry point estimates for its input, and the
\* threshold it compares it with (tokens holds the total: counted for
\* analyze_sentiment and analyze_batch, estimated from the characters of
\* the filtered posts for the other two).
PathThreshold ==
    CASE entry \in {"analyze_sentiment", "summarize_discussion"} -> 3000
      [] entry \in {"analyze_batch", "cluster_opinions"} -> 4000
      [] OTHER -> 0

\* C20: an entry point that has chosen a strategy has chosen map-reduce if
\* and only if the token total exceeds its threshold or the caller passed
\* use_map_reduce = True, and the direct path otherwise.
C20_MapReduceIffOverOrForced ==
    (top_pc \in {"mr", "done"} /\ path # "none") =>
        /\ path = "map_reduce" <=> (tokens > PathThreshold \/ use_map_reduce)
        /\ path = "direct" <=> ~(tokens > PathThreshold \/ use_map_reduce)

\* The same for the three entry points other than analyze_sentiment, and
\* for analyze_sentiment with "and" in place of "or".
C20_SentimentNeedsBoth ==
    (top_pc \in {"mr", "done"} /\ path # "none") =>
        LET wanted == IF entry = "analyze_sentiment"
                      THEN tokens > PathThreshold /\ use_map_reduce
                      ELSE tokens > PathThreshold \/ use_map_reduce
        IN  /\ path = "map_reduce" <=> wanted
            /\ path = "direct" <=> ~wanted


\* The positions of the valid posts of the input: those the pipeline's
\* filter keeps (long enough; for clustering, not spam).
ValidPositions ==
    {p \in 1..Len(posts) :
        /\ posts[p].len >= 50
        /\ entry = "cluster_opinions" => ~posts[p].spam}

\* The rank of valid post p among the valid posts, in input order.
RankOf(p) == Cardinality({q \in ValidPositions : q <= p})

DirectCeiling == IF entry = "cluster_opinions" THEN 50 ELSE 30

SampledDirectly ==
    /\ entry \in {"cluster_opinions", "summarize_discussion"}
    /\ top_pc = "done"
    /\ path = "direct"

SampleStep ==
    IF entry = "summarize_discussion" /\ Cardinality(ValidPositions) > 30
    THEN Cardinality(ValidPositions) \div 30
    ELSE 1

IsDefaultRecord(r) ==
    /\ r.t = "val"
    /\ r.v["score"] = PyInt(50)
    /\ r.v["label"] = "neutral"
    /\ r.v["confidence"] = 0

\* Each failed batch call is followed by one call per text of the batch,
\* in order, and by nothing else before the next batch call; a batch call
\* that succeeded by none; a failed call on one text gave the default record;
\* and the batch analysis returned.
FallsBackOnce(o) ==
    /\ o.result.t = "val"
    /\ \A c \in 1..Len(o.calls) :
          o.calls[c].op = "batch" =>
              LET follow == IF o.calls[c].failed THEN Len(o.calls[c].items) ELSE 0
              IN  /\ c + follow <= Len(o.calls)
                  /\ \A k \in 1..follow :
                        /\ o.calls[c + k].op = "single"
                        /\ o.calls[c + k].items = <<o.calls[c].items[k]>>
                  /\ c + follow + 1 <= Len(o.calls) => o.calls[c + follow + 1].op = "batch"
    /\ \A c \in 1..Len(o.calls) :
          (o.calls[c].op = "single" /\ o.calls[c].failed) => IsDefaultRecord(o.calls[c].gave)

\* C22: a batch sentiment call that fails or answers text that does not
\* parse is followed by exactly one fallback pass, each text of the batch
\* analysed once, in order (1 + batch_size calls for the batch), and a
\* failed call of the pass yields the default record with no further call.
C22_FailedBatchFallsBackOnce ==
    out.t = "batch" => FallsBackOnce(out)

\* The same for SentimentAnalyzerV2._analyze_batch_direct alone.
C22_DirectBatchFallsBackOnce ==
    (out.t = "batch" /\ fn = "SentimentAnalyzerV2._analyze_batch_direct") => FallsBackOnce(out)

\* The same for SentimentAnalyzer.analyze_batch when no call on one text
\* raises.
C22_BatchFallsBackOnceUnlessRaised ==
    (/\ out.t = "batch"
     /\ fn = "SentimentAnalyzer.analyze_batch"
     /\ \A c \in 1..Len(out.calls) :
           out.calls[c].op = "single" => out.calls[c].gave.t = "val") => FallsBackOnce(out)

\* C23: analyze_batch returns one sentiment record per input text
\* (len(results) == len(texts)), whatever the batch call answers.
C23_OneRecordPerText ==
    (entry = "analyze_batch" /\ top_pc = "done") =>
        /\ top_ret.t = "val"
        /\ Len(top_ret.v) = Len(posts)

\* C23, on the direct path alone, where one batch call is made:
\* analyze_batch returns one record per input text.
C23_DirectOneRecordPerText ==
    (entry = "analyze_batch" /\ top_pc = "done" /\ path = "direct") =>
        /\ top_ret.t = "val"
        /\ Len(top_ret.v) = Len(posts)

\* The same on the direct path when the batch call's answer holds as many
\* records as there are texts, or fails and the texts are analysed one by one.
C23_DirectAnswerOfRightLength ==
    (/\ entry = "analyze_batch" /\ top_pc = "done" /\ path = "direct"
     /\ (batch_reply.o = "ok" => Len(batch_reply.r) = Len(posts))) =>
        /\ top_ret.t = "val"
        /\ Len(top_ret.v) = Len(posts)


\* C25: cluster_opinions returns at most top_n clusters, on the direct path
\* and on the map-reduce path, whatever the analysis calls answer.
C25_AtMostTopNClusters ==
    (entry = "cluster_opinions" /\ top_pc = "done") =>
        /\ top_ret.t = "val"
        /\ Len(top_ret.v) <= top_n

\* The same on the map-reduce path alone, and when no cluster list is asked
\* of an analysis call.
C25_MapReduceAtMostTopNClusters ==
    (entry = "cluster_opinions" /\ top_pc = "done" /\ path # "direct") =>
        /\ top_ret.t = "val"
        /\ Len(top_ret.v) <= top_n

\* The totals an instance reports (token_usage of analyze_posts).
Totals(a) ==
    LET l == loggers[instance_logger[a]]
    IN  [total |-> l.total_input_tokens + l.total_output_tokens,
         input |-> l.total_input_tokens, output |-> l.total_output_tokens,
         cost |-> l.total_cost_estimate, api_calls |-> l.api_calls]

\* C24: an API call logged on behalf of one instance, and reset_tracking on
\* one instance, leave the totals reported by an independent instance
\* unchanged, under any interleaving of the two instances' calls.
C24_CounterScopedPerInstance ==
    [][\A a \in Instances, b \in Instances :
          (/\ a # b
           /\ instance_logger[b] # 0
           /\ \/ \E input_tokens \in TokenAmounts, output_tokens \in TokenAmounts :
                    LogApiCall(a, input_tokens, output_tokens)
              \/ ResetTracking(a))
          => Totals(b)' = Totals(b)]_vars

\* Every instance built holds the one AnalysisLogger of the process.
C24_InstancesShareOneLogger ==
    \A a \in Instances, b \in Instances :
        (instance_logger[a] # 0 /\ instance_logger[b] # 0) =>
            /\ instance_logger[a] = instance_logger[b]
            /\ instance_logger[a] = analysis_logger
            /\ Len(loggers) = 1

\* C28: an end_operation(n) that a start_operation(n) preceded records a
\* duration for n in operation_durations, other operations started and
\* ended in between included.
C28_EndRecordsDuration ==
    [][\A a \in Instances, n \in OperationNames :
          (EndOperation(a, n) /\ <<instance_logger[a], n>> \in started)
          => n \in DOMAIN loggers'[instance_logger[a]].operation_durations]_vars

\* The same when start_operation(n) was the call on the logger just before:
\* the duration recorded is the time since that call.
C28_EndRightAfterStartRecordsDuration ==
    [][\A a \in Instances, n \in OperationNames :
          (/\ EndOperation(a, n)
           /\ acted.op = "start_operation"
           /\ acted.name = n
           /\ instance_logger[acted.by] = instance_logger[a])
          => /\ n \in DOMAIN loggers'[instance_logger[a]].operation_durations
             /\ loggers'[instance_logger[a]].operation_durations[n] =
                    clock - loggers[instance_logger[a]].operation_start_time]_vars


\* The loop of _merge_similar_clusters was entered.
Grouping == fn = "_merge_similar_clusters" /\ "groups" \in DOMAIN out /\ out.groups # <<>>
GroupingReturned == Grouping /\ out.t = "val"

\* The clusters in a group before group g.
GroupedBefore(g) == UNION {out.groups[h].members : h \in 1..(g - 1)}

\* Taken turn by turn, the loop gives what the call gives as a whole.
StepwiseAgrees ==
    (fn = "_merge_similar_clusters" /\ out.t = "val" /\ "groups" \in DOMAIN out) =>
        out.v = MergeSimilarClusters(arg.clusters, arg.max_clusters)

\* C26: when _merge_similar_clusters groups, it scans the clusters in
\* encounter order; the group seeded by an ungrouped cluster i holds i and
\* every later, still ungrouped cluster whose label shares a word with the
\* label of i itself, and no other; each cluster ends in exactly one group.
C26_GroupsAreGreedyBySeed ==
    Grouping =>
        /\ \A g \in 1..Len(out.groups) :
              LET seed == out.groups[g].seed
              IN  /\ seed \in 1..Len(arg.clusters) \ GroupedBefore(g)
                  /\ \A k \in 1..(seed - 1) : k \in GroupedBefore(g)
                  /\ out.groups[g].members =
                        {seed} \cup {j \in (seed + 1)..Len(arg.clusters) :
                                        /\ j \notin GroupedBefore(g)
                                        /\ Shares(arg.clusters, seed, j)}
        /\ out.t = "val" =>
              \A k \in 1..Len(arg.clusters) :
                  Cardinality({g \in 1..Len(out.groups) : k \in out.groups[g].members}) = 1

\* A returned grouping in which the seed of a later group shares a word
\* with a member of an earlier group but not with that group's seed, and
\* so was not admitted to it.
C26_Witness ==
    /\ GroupingReturned
    /\ \E g \in 1..Len(out.groups), h \in 1..Len(out.groups), j \in 1..Len(arg.clusters) :
          /\ g < h
          /\ j \in out.groups[g].members
          /\ j # out.groups[g].seed
          /\ Shares(arg.clusters, j, out.groups[h].seed)
          /\ ~Shares(arg.clusters, out.groups[g].seed, out.groups[h].seed)

Occurrences(seq, c) == Cardinality({k \in 1..Len(seq) : seq[k] = c})

\* C30: when _merge_similar_clusters groups, the mention_counts of the
\* merged list before it is cut to max_clusters sum to those of the input
\* clusters, and the clusters the cut drops are those of smallest
\* mention_count.
C30_CountsConservedUntilCut ==
    GroupingReturned =>
        /\ SumSeq([k \in 1..Len(out.merged) |-> out.merged[k].mention_count])
              = SumSeq([k \in 1..Len(arg.clusters) |-> arg.clusters[k].mention_count])
        /\ Len(out.v) = Min(arg.max_clusters, Len(out.merged))
        /\ \A k \in 1..Len(out.v) :
              Occurrences(out.v, out.v[k]) <= Occurrences(out.merged, out.v[k])
        /\ \A k \in 1..Len(out.v), d \in 1..Len(out.merged) :
              Occurrences(out.v, out.merged[d]) < Occurrences(out.merged, out.merged[d])
                  => out.v[k].mention_count >= out.merged[d].mention_count

\* A returned grouping that merged two clusters and whose cut dropped a
\* cluster while keeping one of greater mention_count that came later in
\* group order.
C30_Witness ==
    /\ GroupingReturned
    /\ Len(out.merged) < Len(arg.clusters)
    /\ Len(out.v) < Len(out.merged)
    /\ Len(out.v) >= 1
    /\ out.v[1] # out.merged[1]


ChatCompletionCalled == fn = "chat_completion" /\ out.t # "unset"
ChatCompletionEnded == ChatCompletionCalled /\ out.t \notin {"loop", "sleep"}

\* The 0-based numbers of the attempts made so far.
AttemptsMade == {out.events[k].attempt : k \in {x \in 1..Len(out.events) : out.events[x].e = "post"}}

C29_StartStrictlyIncreases ==
    [][SplitTextStep => out'.v.start > out.v.start]_vars

\* C29, termination: split_text_by_tokens returns a chunk list.
C29_SplitTextTerminates ==
    (fn = "split_text_by_tokens") => <>(out.t = "val")

\* The same for overlap < max_tokens_per_chunk.
C29_StartIncreasesForSmallerOverlap ==
    [][(SplitTextStep /\ arg.overlap < arg.max_tokens_per_chunk)
          => out'.v.start > out.v.start]_vars

C29_TerminatesForSmallerOverlap ==
    (fn = "split_text_by_tokens" /\ arg.overlap < arg.max_tokens_per_chunk)
        => <>(out.t = "val")

=============================================================================
